---- MODULE Spec2Model ----
(***************************************************************************)
(* Timestamp-chain ledger of the HR time-management API.                   *)
(*                                                                         *)
(* The model follows the employee timestamp log table for one employee     *)
(* partition (PK = EMP#E1): the createTimestamp handler that appends to    *)
(* it, split at its awaits on the log table (take timestamp / read latest  *)
(* / conditional put), and the validateTimestamps handler that replays it. *)
(* The handlers that read the log table follow: getTimestampSequence,      *)
(* getTimestampHistory, generateTimesheet, and createAttendanceRecord,     *)
(* which derives one record of the time-management table from the events   *)
(* of a day.                                                               *)
(*                                                                         *)
(* Timestamps are ISO-8601 strings produced by Date.toISOString(); they    *)
(* are modelled by their epoch milliseconds.  toISOString is fixed-width   *)
(* and zero-padded, so string order of sort keys, new Date(s) comparison   *)
(* and integer order coincide, and s.split('T')[0] is the day number       *)
(* ms \div DayMs.                                                          *)
(***************************************************************************)
EXTENDS Integers, Sequences, FiniteSets, TLC

VARIABLES now, ticks, ledger, proc, tampered, attendance, leaves

vars == <<now, ticks, ledger, proc, tampered, attendance, leaves>>

(***************************************************************************)
(* Bounds of the model.                                                    *)
(***************************************************************************)
\* stored events plus requests in flight, one request at a time
MaxEvents == 4
\* the same with concurrent requests
MaxConcEvents == 3
\* events appended at most where every handler is offered
MaxOpsEvents == 3
\* moves of the clock where every handler is offered
MaxOpsTicks == 2
\* moves of the clock
MaxTicks == 3
\* events of the day ledgers offered to createAttendanceRecord
MaxDayEvents == 4
\* events of a day with two breaks
MaxBreakDayEvents == 6
\* events of a ledger of the timesheets, days of a week of the timesheets
MaxSheetEvents == 5
MaxWeekDays == 6
\* leave requests stored or about to be stored
MaxLeaves == 2

(***************************************************************************)
(* Program constants.                                                      *)
(***************************************************************************)
DayMs == 86400000
MinuteMs == 60000
MaxBreakMinutes == 240
HourMs == 3600000
MaxWorkHours == 12
MaxSingleBreakMinutes == 30
RegularHours == 8
WeeklyRegularHours == 40

\* clock advances offered to the model: one millisecond and exactly 24 hours
TickSizes == {1, DayMs}

Procs == {"p1", "p2"}

(***************************************************************************)
(* Values.                                                                 *)
(***************************************************************************)
NullTs == -1
FinalTs == -2
NoWbs == <<>>
W1 == <<"W", "1">>
W2 == <<"W", "2">>
X9 == <<"X", "9">>
GENESIS == <<"GENESIS">>
BadHash == <<"sha256", "forged">>

TimestampTypes == {"CLOCK_IN", "CLOCK_OUT", "BREAK_START", "BREAK_END", "WBS_CHANGE"}
Roles == {"employee", "hr_admin", "manager_admin", "none"}

\* personnel table, SECTION#PERSONAL_DATA: E1 and E2 active, E3 inactive
EmployeeStatus(e) == IF e = "E3" THEN "INACTIVE" ELSE "ACTIVE"
\* personnel table, SECTION#CONTRACT_DETAILS; E4 is active, in department D3
EmployeeDepartment(e) == IF e = "E2" THEN "D2" ELSE IF e = "E4" THEN "D3" ELSE "D1"
\* organizational table, ORG#WBS#<code>: W1 and W2 belong to D1, X9 to D2;
\* D3 has no active code
WbsExists(w) == w \in {W1, W2, X9}
WbsDepartment(w) == IF w = X9 THEN "D2" ELSE "D1"

NoLog == [employeeId |-> "", timestamp |-> NullTs, timestampType |-> "NONE",
          sequenceNumber |-> 0, previousTimestamp |-> NullTs,
          hashChain |-> <<>>, wbsCode |-> NoWbs,
          previousWbsCode |-> NoWbs, wbsChangeReason |-> FALSE]

NoErrors == [sequence |-> <<>>, chronological |-> <<>>, hash |-> <<>>,
             state |-> <<>>, breaks |-> <<>>]

NoReport == [validationStatus |-> "NONE", errorDetails |-> NoErrors,
             validationResults |-> <<>>]

\* calendar dates are day numbers (the 'YYYY-MM-DD' prefix of a timestamp)
NoDate == -1

\* the attendanceDetails of processTimestampLogs; hours in hundredths
NoDetails == [checkInTime |-> NullTs, checkOutTime |-> NullTs, totalHours |-> 0,
              regularHours |-> 0, overtimeHours |-> 0, breaks |-> 0,
              wbsCode |-> NoWbs, costCenter |-> ""]

\* a leave request of the time-management table; totalDays in days
NoLeave == [requestId |-> 0, employeeId |-> "", leaveType |-> "",
            startDate |-> NoDate, endDate |-> NoDate, totalDays |-> 0,
            approvalStatus |-> ""]

\* an invocation slot: idle, or a createTimestamp invocation after it took
\* its timestamp ("stamped") or read the latest log ("read"), with the
\* caller's custom:wbsChange claim and the handler the request came in by,
\* or a
\* createAttendanceRecord invocation after its existence query
\* ("attChecked"), after its leave query ("attLeaveChecked"), after its
\* query for the logs of the day ("attLogsRead") or with its item built
\* ("attProcessed"), or a createLeaveRequest invocation with its item built
\* ("leaveBuilt"), or an updateLeaveRequestStatus invocation after it read
\* the request ("statusRead"), or the response of the invocation that ended
\* last in the slot ("done")
Idle == [pc |-> "idle", result |-> "", employeeId |-> "", timestampType |-> "",
         wbsCode |-> NoWbs, reason |-> FALSE, timestamp |-> NullTs,
         latestLog |-> NoLog, item |-> NoLog, report |-> NoReport,
         attendanceDate |-> NoDate, workMode |-> "", details |-> NoDetails,
         attendanceId |-> 0, createdAt |-> NullTs, leave |-> NoLeave,
         wbsChange |-> "none", entryPoint |-> "createTimestamp"]

Done(result) == [Idle EXCEPT !.pc = "done", !.result = result]

\* the response of createAttendanceRecord to a request that passed the
\* input checks, with the employee and date it was asked for
AttDone(employeeId, attendanceDate, result) ==
    [Done(result) EXCEPT !.employeeId = employeeId,
                         !.attendanceDate = attendanceDate]

\* request events offered to createTimestamp.  An employee acting on the own
\* account, with every type; a work-category code is supplied with
\* WBS_CHANGE only
CoreRequests ==
    {[role |-> "employee", caller |-> "E1",
      body |-> [employeeId |-> "E1", timestampType |-> t, wbsCode |-> NoWbs,
                wbsChangeReason |-> (t = "WBS_CHANGE"), hasDeviceId |-> TRUE]] :
        t \in TimestampTypes}

WbsRequests ==
    {[role |-> "employee", caller |-> "E1",
      body |-> [employeeId |-> "E1", timestampType |-> t, wbsCode |-> w,
                wbsChangeReason |-> r, hasDeviceId |-> TRUE]] :
        t \in {"WBS_CHANGE", "LUNCH"}, w \in {NoWbs, W2}, r \in BOOLEAN}

\* one request for each way of failing before the log table is touched
BaseRequest ==
    [role |-> "employee", caller |-> "E1",
     body |-> [employeeId |-> "E1", timestampType |-> "CLOCK_IN", wbsCode |-> NoWbs,
               wbsChangeReason |-> FALSE, hasDeviceId |-> TRUE]]

OtherRequests ==
    {[BaseRequest EXCEPT !.role = "none"],
     [BaseRequest EXCEPT !.role = "hr_admin"],
     [BaseRequest EXCEPT !.body.hasDeviceId = FALSE],
     [BaseRequest EXCEPT !.caller = "E2"],
     [BaseRequest EXCEPT !.caller = "E2", !.body.hasDeviceId = FALSE],
     [BaseRequest EXCEPT !.caller = "E3", !.body.employeeId = "E3"],
     [BaseRequest EXCEPT !.caller = "E4", !.body.employeeId = "E4"],
     [BaseRequest EXCEPT !.body.wbsCode = X9]}

Requests == CoreRequests \cup WbsRequests \cup OtherRequests

(***************************************************************************)
(* Helpers of the handlers.                                                *)
(***************************************************************************)
DigitChar(d) == CASE d = 0 -> "0" [] d = 1 -> "1" [] d = 2 -> "2" [] d = 3 -> "3"
                  [] d = 4 -> "4" [] d = 5 -> "5" [] d = 6 -> "6" [] d = 7 -> "7"
                  [] d = 8 -> "8" [] d = 9 -> "9"

\* decimal rendering of a number inside a template literal
RECURSIVE Digits(_)
Digits(n) == IF n < 10 THEN <<DigitChar(n)>>
             ELSE Digits(n \div 10) \o <<DigitChar(n % 10)>>

\* `${timestamp}${timestampType}${sequenceNumber}${wbsCode || ''}` under
\* SHA-256: the digest is modelled by the string it is taken of (no
\* collisions), the string by its pieces in order; the timestamp piece is
\* fixed-width, the others are concatenated character by character.
generateHash(logEntry) ==
    <<"sha256", logEntry.timestamp, logEntry.timestampType>>
        \o Digits(logEntry.sequenceNumber) \o logEntry.wbsCode

\* Query PK = :pk, ScanIndexForward false, Limit 1
getLatestTimestamp(table) ==
    IF table = {} THEN NoLog
    ELSE CHOOSE e \in table : \A f \in table : f.timestamp <= e.timestamp

\* the table with a second CLOCK_IN allowed after CLOCK_IN
validTransitionsLoose(lastAction) ==
    CASE lastAction = "CLOCK_IN" -> {"CLOCK_IN", "BREAK_START", "WBS_CHANGE", "CLOCK_OUT"}
      [] lastAction = "CLOCK_OUT" -> {"CLOCK_IN"}
      [] lastAction = "BREAK_START" -> {"BREAK_END", "WBS_CHANGE"}
      [] lastAction = "BREAK_END" -> {"BREAK_START", "WBS_CHANGE", "CLOCK_OUT"}
      [] lastAction = "WBS_CHANGE" -> {"BREAK_START", "WBS_CHANGE", "CLOCK_OUT"}
      [] OTHER -> {}

validTransitions(lastAction) ==
    CASE lastAction = "CLOCK_IN" -> {"BREAK_START", "WBS_CHANGE", "CLOCK_OUT"}
      [] lastAction = "CLOCK_OUT" -> {"CLOCK_IN"}
      [] lastAction = "BREAK_START" -> {"BREAK_END", "WBS_CHANGE"}
      [] lastAction = "BREAK_END" -> {"BREAK_START", "WBS_CHANGE", "CLOCK_OUT"}
      [] lastAction = "WBS_CHANGE" -> {"BREAK_START", "WBS_CHANGE", "CLOCK_OUT"}
      [] OTHER -> {}

\* every caller with a role in the token let through
isAuthorizedAnyRole(role, allowedRoles) == role # "none"

isAuthorized(role, allowedRoles) == role # "none" /\ role \in allowedRoles

\* required fields present and non-empty; the model lets deviceId be missing
validateBody(body) == body.hasDeviceId

validateEmployee(employeeId) ==
    IF employeeId \notin {"E1", "E2", "E3", "E4"} THEN "EmployeeNotFound"
    ELSE IF EmployeeStatus(employeeId) # "ACTIVE" THEN "EmployeeInactive"
    ELSE "ok"

validateWbsCodeForEmployee(wbsCode, employeeId) ==
    IF ~WbsExists(wbsCode) THEN "UnassignedCategory"
    ELSE IF WbsDepartment(wbsCode) # EmployeeDepartment(employeeId)
         THEN "UnassignedCategory"
    ELSE "ok"

\* first active code of the employee's department (NoWbs: the query of the
\* department's active codes is empty, which throws)
resolveWbsCode(employeeId) ==
    CASE EmployeeDepartment(employeeId) = "D1" -> W1
      [] EmployeeDepartment(employeeId) = "D2" -> X9
      [] OTHER -> NoWbs

\* steps 1 and 2 of the handler: the outcome before the log table is touched
PreCheck(role, caller, body) ==
    IF ~isAuthorized(role, {"employee"}) THEN "Forbidden"
    ELSE IF ~validateBody(body) THEN "MissingField"
    ELSE IF caller # body.employeeId THEN "ForbiddenNotOwner"
    ELSE IF validateEmployee(body.employeeId) # "ok"
         THEN validateEmployee(body.employeeId)
    ELSE IF body.wbsCode # NoWbs
         THEN validateWbsCodeForEmployee(body.wbsCode, body.employeeId)
    ELSE IF /\ body.timestampType \in {"CLOCK_IN", "BREAK_END"}
            /\ resolveWbsCode(body.employeeId) = NoWbs
         THEN "NoActiveCategoryForDepartment"
    ELSE "ok"

\* wbsCode after the auto-resolution branch
ResolvedWbs(body) ==
    IF body.wbsCode # NoWbs THEN body.wbsCode
    ELSE IF body.timestampType \in {"CLOCK_IN", "BREAK_END"}
         THEN resolveWbsCode(body.employeeId)
    ELSE NoWbs

\* the state check with a gap of exactly 24 hours rejected as well
StateCheckGapInclusive(timestampType, timestamp, latestLog) ==
    IF latestLog # NoLog
    THEN IF timestampType \notin validTransitions(latestLog.timestampType)
         THEN "InvalidTransition"
         ELSE IF timestamp - latestLog.timestamp >= DayMs THEN "ExcessiveGap"
         ELSE "ok"
    ELSE IF timestampType # "CLOCK_IN" THEN "FirstEventMustBeClockIn"
    ELSE "ok"

\* step 3: state machine and gap rule against the log that was read
StateCheck(timestampType, timestamp, latestLog) ==
    IF latestLog # NoLog
    THEN IF timestampType \notin validTransitions(latestLog.timestampType)
         THEN "InvalidTransition"
         ELSE IF timestamp - latestLog.timestamp > DayMs THEN "ExcessiveGap"
         ELSE "ok"
    ELSE IF timestampType # "CLOCK_IN" THEN "FirstEventMustBeClockIn"
    ELSE "ok"

\* the sequence number taken over from the latest log without the increment
nextSequenceNumberStale(latestLog) ==
    IF latestLog # NoLog THEN latestLog.sequenceNumber ELSE 1

nextSequenceNumber(latestLog) ==
    IF latestLog # NoLog THEN latestLog.sequenceNumber + 1 ELSE 1

\* the digest taken of the latest log even when there is none
nextHashChainDigest(latestLog) == generateHash(latestLog)

nextHashChain(latestLog) ==
    IF latestLog # NoLog THEN generateHash(latestLog) ELSE GENESIS

\* step 4: the item written to the log table
BuildItem(p, latestLog) ==
    [employeeId |-> p.employeeId,
     timestamp |-> p.timestamp,
     timestampType |-> p.timestampType,
     sequenceNumber |-> nextSequenceNumber(latestLog),
     previousTimestamp |-> IF latestLog # NoLog THEN latestLog.timestamp ELSE NullTs,
     hashChain |-> nextHashChain(latestLog),
     wbsCode |-> IF p.wbsCode # NoWbs THEN p.wbsCode ELSE latestLog.wbsCode,
     previousWbsCode |-> IF p.timestampType = "WBS_CHANGE"
                         THEN latestLog.wbsCode ELSE NoWbs,
     wbsChangeReason |-> p.timestampType = "WBS_CHANGE"]

\* PutItem without the condition: the item under the same key is replaced
PutItemCommandOverwrite(table, item) ==
    [ok |-> TRUE,
     table |-> {e \in table : e.timestamp # item.timestamp} \cup {item}]

\* a put that replaces the stored item and then reports the failed condition
PutItemCommandTorn(table, item) ==
    IF \E e \in table : e.timestamp = item.timestamp
    THEN [ok |-> FALSE,
          table |-> {e \in table : e.timestamp # item.timestamp} \cup {item}]
    ELSE [ok |-> TRUE, table |-> table \cup {item}]

\* PutItem with ConditionExpression attribute_not_exists(PK) AND
\* attribute_not_exists(SK): evaluated against the item stored under the
\* same key (partition, timestamp), if any
PutItemCommand(table, item) ==
    IF \E e \in table : e.timestamp = item.timestamp
    THEN [ok |-> FALSE, table |-> table]
    ELSE [ok |-> TRUE, table |-> table \cup {item}]

(***************************************************************************)
(* JavaScript numbers.  The handlers divide durations and add the          *)
(* quotients as IEEE 754 binary64 values.  A value is modelled by its      *)
(* binary digits, eight to a limb: 13 limbs, the first three for the       *)
(* integer part, ten for the fraction; digit i has the weight 2^(24 - i).  *)
(* Every value the handlers compute from millisecond differences below     *)
(* 2^31 has its 53 significant digits among these 104.                     *)
(***************************************************************************)
Limbs64 == 1..13

\* the value with the limbs F(1), ..., F(13)
Value64(F(_)) ==
    <<F(1), F(2), F(3), F(4), F(5), F(6), F(7), F(8), F(9), F(10), F(11),
      F(12), F(13)>>

Zero64 == <<0, 0, 0, 0, 0, 0, 0, 0, 0, 0, 0, 0, 0>>

\* the first k limbs of the fraction r / d (r < d < 2^23), by long division
RECURSIVE FracLimbs(_, _, _)
FracLimbs(r, d, k) ==
    IF k = 0 \/ r < 0 THEN <<>>
    ELSE <<(256 * r) \div d>> \o FracLimbs((256 * r) % d, d, k - 1)

\* the remainder of the long division r / d after k limbs of the fraction
RECURSIVE FracRem(_, _, _)
FracRem(r, d, k) ==
    IF k = 0 THEN r ELSE (256 * FracRem(r, d, k - 1)) % d

\* the digits of the exact quotient n / d (0 <= n, n / d < 2^24), cut off
\* after the last limb
Quotient(n, d) ==
    <<((n \div d) \div 65536) % 256, ((n \div d) \div 256) % 256, (n \div d) % 256>>
    \o FracLimbs(n % d, d, 10)

\* the part of the quotient that was cut off is not zero
QuotientCut(n, d) == FracRem(n % d, d, 10) # 0

\* digit i of the value
Digit64(v, i) == (v[(i - 1) \div 8 + 1] \div (2 ^ (7 - ((i - 1) % 8)))) % 2

\* the position of the last of the 53 significant digits
LastDigit(v) ==
    LET l == CHOOSE k \in Limbs64 : v[k] # 0 /\ \A j \in 1..(k - 1) : v[j] = 0
        b == CHOOSE k \in 1..8 : v[l] \div (2 ^ (8 - k)) = 1
    IN  8 * (l - 1) + b + 52

\* what lies after the 53 significant digits is more than half a unit of
\* the last one, or exactly half and the last digit is odd (round to nearest,
\* ties to even)
RoundsUp(v, cut) ==
    /\ v # Zero64
    /\ LastDigit(v) < 104
    /\ Digit64(v, LastDigit(v) + 1) = 1
    /\ \/ cut
       \/ Digit64(v, LastDigit(v)) = 1
       \/ \E j \in (LastDigit(v) + 2)..104 : Digit64(v, j) = 1

\* something lies after the 53 significant digits
Inexact(v, cut) ==
    /\ v # Zero64
    /\ cut \/ \E j \in (LastDigit(v) + 1)..104 : Digit64(v, j) = 1

\* the limbs 1..k of the exact sum of a and b, given the carry into limb k
RECURSIVE SumFrom(_, _, _, _)
SumFrom(a, b, k, carry) ==
    IF k = 0 \/ carry < 0 THEN <<>>
    ELSE SumFrom(a, b, k - 1, (a[k] + b[k] + carry) \div 256)
         \o <<(a[k] + b[k] + carry) % 256>>

\* the exact sum of two values
Sum64(a, b) == SumFrom(a, b, 13, 0)

\* the digits of limb k up to the digit last, the others cleared
KeptLimb(v, k, last) ==
    IF 8 * k <= last THEN v[k]
    ELSE IF 8 * k - last >= 8 THEN 0
    ELSE v[k] - (v[k] % (2 ^ (8 * k - last)))

\* limb k of one unit of the digit last
UnitLimb(k, last) ==
    IF (last - 1) \div 8 + 1 = k THEN 2 ^ (7 - ((last - 1) % 8)) ELSE 0

\* the value rounded to 53 significant digits
Round64(v, cut) ==
    IF v = Zero64 \/ LastDigit(v) >= 104 THEN v
    ELSE LET last == LastDigit(v)
             kept == Value64(LAMBDA k : KeptLimb(v, k, last))
             unit == Value64(LAMBDA k : UnitLimb(k, last))
         IN  IF RoundsUp(v, cut) THEN Sum64(kept, unit) ELSE kept

\* n / d as the division operator gives it
Divide64(n, d) == Round64(Quotient(n, d), QuotientCut(n, d))

\* a + b as the addition operator gives it
Add64(a, b) == Round64(Sum64(a, b), FALSE)

\* a > b
Greater64(a, b) ==
    \E k \in Limbs64 : a[k] > b[k] /\ \A j \in 1..(k - 1) : a[j] = b[j]

\* the limbs 1..k of the exact difference of a and b (a >= b), given the
\* borrow from limb k
RECURSIVE DiffFrom(_, _, _, _)
DiffFrom(a, b, k, borrow) ==
    IF k = 0 \/ borrow < 0 THEN <<>>
    ELSE DiffFrom(a, b, k - 1, IF a[k] - b[k] - borrow < 0 THEN 1 ELSE 0)
         \o <<(a[k] - b[k] - borrow + 256) % 256>>

\* a - b as the subtraction operator gives it, for a >= b
Sub64(a, b) == Round64(DiffFrom(a, b, 13, 0), FALSE)

\* n / d as a binary64 value is below the exact quotient
QuotientBelow(n, d) ==
    /\ Inexact(Quotient(n, d), QuotientCut(n, d))
    /\ ~RoundsUp(Quotient(n, d), QuotientCut(n, d))

\* the value is below the exact quotient n / d, which lies half-way between
\* two numbers of units: it is below the binary64 value nearest to the
\* quotient, or it is that value and that value is below the quotient
Below64(v, n, d) ==
    \/ Greater64(Divide64(n, d), v)
    \/ v = Divide64(n, d) /\ QuotientBelow(n, d)

(***************************************************************************)
(* validateTimestamps: the replay of the whole log.                        *)
(***************************************************************************)
\* Query PK = :pk, ScanIndexForward true, all pages: ascending by sort key
RECURSIVE fetchAllTimestampLogs(_)
fetchAllTimestampLogs(table) ==
    IF table = {} THEN <<>>
    ELSE LET first == CHOOSE e \in table : \A f \in table : e.timestamp <= f.timestamp
         IN  <<first>> \o fetchAllTimestampLogs(table \ {first})

\* the auditor's digest with the work-category code left out
generateHashAuditNoWbs(logEntry) ==
    <<"sha256", logEntry.timestamp, logEntry.timestampType>>
        \o Digits(logEntry.sequenceNumber)

\* the auditor's own copy of the digest
generateHashAudit(logEntry) ==
    <<"sha256", logEntry.timestamp, logEntry.timestampType>>
        \o Digits(logEntry.sequenceNumber) \o logEntry.wbsCode

\* the messages pushed to logValidation.errors
MsgSequence == "Expected sequence N."
MsgChronological == "Not chronological."
MsgHash == "Hash mismatch."
MsgFirstHash == "First hash should be GENESIS."
MsgClockIn == "Cannot CLOCK_IN while already clocked in."
MsgClockOutNotIn == "Cannot CLOCK_OUT if not clocked in."
MsgClockOutBreak == "Cannot CLOCK_OUT while on break."
MsgBreakStart == "Invalid state for BREAK_START."
MsgBreakEnd == "Cannot END_BREAK if not on break."
MsgFinalClockedIn == "Final State Error: Employee is still clocked in."
MsgFinalOnBreak == "Final State Error: Employee is still on break."

\* String.prototype.includes, case-sensitive, on the messages above
Includes(msg, needle) ==
    CASE needle = "sequence" -> msg = MsgSequence
      [] needle = "chronological" -> msg = MsgChronological
      [] needle = "Hash" -> msg = MsgHash
      [] needle = "Cannot" ->
            msg \in {MsgClockIn, MsgClockOutNotIn, MsgClockOutBreak, MsgBreakEnd}
      [] needle = "Invalid state" -> msg = MsgBreakStart
      [] OTHER -> FALSE

SomeIncludes(errors, needle) ==
    \E k \in 1..Len(errors) : Includes(errors[k], needle)

If(cond, msg) == IF cond THEN <<msg>> ELSE <<>>

\* a replay that takes the employee as clocked out after every log
ReplayStepAlwaysOut(st, timestampType) == [clockedIn |-> FALSE, onBreak |-> FALSE]

\* clockedIn / onBreak after one more log
ReplayStep(st, timestampType) ==
    CASE timestampType = "CLOCK_IN" -> [clockedIn |-> TRUE, onBreak |-> FALSE]
      [] timestampType = "CLOCK_OUT" -> [clockedIn |-> FALSE, onBreak |-> FALSE]
      [] timestampType = "BREAK_START" -> [st EXCEPT !.onBreak = TRUE]
      [] timestampType = "BREAK_END" -> [st EXCEPT !.onBreak = FALSE]
      [] OTHER -> st

\* clockedIn / onBreak after the first n logs
RECURSIVE ReplayState(_, _)
ReplayState(logs, n) ==
    IF n = 0 THEN [clockedIn |-> FALSE, onBreak |-> FALSE]
    ELSE ReplayStep(ReplayState(logs, n - 1), logs[n].timestampType)

\* the state messages of one log, given the state before it
StateErrors(st, timestampType) ==
    CASE timestampType = "CLOCK_IN" -> If(st.clockedIn, MsgClockIn)
      [] timestampType = "CLOCK_OUT" ->
            If(~st.clockedIn, MsgClockOutNotIn) \o If(st.onBreak, MsgClockOutBreak)
      [] timestampType = "BREAK_START" ->
            If(~st.clockedIn \/ st.onBreak, MsgBreakStart)
      [] timestampType = "BREAK_END" -> If(~st.onBreak, MsgBreakEnd)
      [] OTHER -> <<>>

\* sequence, chronological and hash messages of the log at position i (from 1)
ChainErrors(logs, i) ==
    If(logs[i].sequenceNumber # i, MsgSequence)
    \o If(i > 1 /\ logs[i].timestamp <= logs[IF i > 1 THEN i - 1 ELSE 1].timestamp,
          MsgChronological)
    \o (IF i > 1 THEN If(logs[i].hashChain # generateHashAudit(logs[i - 1]), MsgHash)
        ELSE If(logs[i].hashChain # GENESIS, MsgFirstHash))

\* logValidation of the log at position i
LogValidation(logs, i) ==
    [timestamp |-> logs[i].timestamp,
     sequenceNumber |-> logs[i].sequenceNumber,
     timestampType |-> logs[i].timestampType,
     errors |-> ChainErrors(logs, i)
                \o StateErrors(ReplayState(logs, i - 1), logs[i].timestampType)]

FinalEntry(msg) ==
    [timestamp |-> FinalTs, sequenceNumber |-> 0, timestampType |-> "final",
     errors |-> <<msg>>]

DateOnly(timestamp) == timestamp \div DayMs

\* currentBreakStart after the first n logs (NullTs: none)
RECURSIVE BreakStartAfter(_, _)
BreakStartAfter(logs, n) ==
    IF n = 0 THEN NullTs
    ELSE IF logs[n].timestampType = "BREAK_START" THEN logs[n].timestamp
    ELSE IF logs[n].timestampType = "BREAK_END" THEN NullTs
    ELSE BreakStartAfter(logs, n - 1)

\* the breaks counted under the date after the first n logs, in
\* milliseconds
RECURSIVE BreakTotal(_, _, _)
BreakTotal(logs, n, date) ==
    IF n = 0 THEN 0
    ELSE BreakTotal(logs, n - 1, date)
         + (IF /\ logs[n].timestampType = "BREAK_END"
               /\ DateOnly(logs[n].timestamp) = date
               /\ BreakStartAfter(logs, n - 1) # NullTs
            THEN logs[n].timestamp - BreakStartAfter(logs, n - 1)
            ELSE 0)

\* breaksByDate[date] after the first n logs as the handler holds it: the
\* sum, in the order of the logs, of the durations divided by 60000
RECURSIVE breaksByDate(_, _, _)
breaksByDate(logs, n, date) ==
    IF n = 0 THEN Zero64
    ELSE IF /\ logs[n].timestampType = "BREAK_END"
            /\ DateOnly(logs[n].timestamp) = date
            /\ BreakStartAfter(logs, n - 1) # NullTs
         THEN Add64(breaksByDate(logs, n - 1, date),
                    Divide64(logs[n].timestamp - BreakStartAfter(logs, n - 1),
                             MinuteMs))
         ELSE breaksByDate(logs, n - 1, date)

\* totalMinutes > 240.  The sum of the quotients differs from the exact
\* total by far less than a millisecond, so it is only computed where the
\* exact total is the limit itself (the logs are in the order of their
\* timestamps: no duration is negative)
ExceedsBreakLimit(logs, date) ==
    LET total == BreakTotal(logs, Len(logs), date)
    IN  IF total # MaxBreakMinutes * MinuteMs
        THEN total > MaxBreakMinutes * MinuteMs
        ELSE Greater64(breaksByDate(logs, Len(logs), date),
                       Divide64(MaxBreakMinutes, 1))

\* totalMinutes.toFixed(0): the nearest whole number of minutes; half a
\* minute is a binary64 value, and the sum is rounded down only when it is
\* below it
BreakMinutes(logs, date) ==
    LET total == BreakTotal(logs, Len(logs), date)
    IN  IF total % MinuteMs < MinuteMs \div 2 THEN total \div MinuteMs
        ELSE IF total % MinuteMs > MinuteMs \div 2 THEN total \div MinuteMs + 1
        ELSE IF Greater64(Divide64(total, MinuteMs),
                          breaksByDate(logs, Len(logs), date))
        THEN total \div MinuteMs
        ELSE total \div MinuteMs + 1

\* the entries of errorDetails.breaks, in the order of the dates; error is
\* the number of minutes in the message
RECURSIVE BreakErrors(_, _)
BreakErrors(logs, dates) ==
    IF dates = {} THEN <<>>
    ELSE LET d == CHOOSE x \in dates : \A y \in dates : x <= y
         IN  If(ExceedsBreakLimit(logs, d),
                [date |-> d, error |-> BreakMinutes(logs, d)])
             \o BreakErrors(logs, dates \ {d})

\* steps 3 and 4 of the handler on the fetched logs
validateLedger(logs) ==
    LET results == [i \in 1..Len(logs) |-> LogValidation(logs, i)]
        HasSequence(v) == SomeIncludes(v.errors, "sequence")
        HasChronological(v) == SomeIncludes(v.errors, "chronological")
        HasHash(v) == SomeIncludes(v.errors, "Hash")
        HasState(v) == SomeIncludes(v.errors, "Cannot")
                       \/ SomeIncludes(v.errors, "Invalid state")
        final == ReplayState(logs, Len(logs))
        details ==
            [sequence |-> SelectSeq(results, HasSequence),
             chronological |-> SelectSeq(results, HasChronological),
             hash |-> SelectSeq(results, HasHash),
             state |-> SelectSeq(results, HasState)
                       \o If(final.clockedIn, FinalEntry(MsgFinalClockedIn))
                       \o If(final.onBreak, FinalEntry(MsgFinalOnBreak)),
             breaks |-> BreakErrors(logs,
                            {DateOnly(logs[i].timestamp) : i \in 1..Len(logs)})]
        overallValid == /\ details.sequence = <<>>
                        /\ details.chronological = <<>>
                        /\ details.hash = <<>>
                        /\ details.state = <<>>
                        /\ details.breaks = <<>>
    IN  IF Len(logs) = 0
        THEN [NoReport EXCEPT !.validationStatus = "VALID"]
        ELSE [validationStatus |-> IF overallValid THEN "VALID" ELSE "INVALID",
              errorDetails |-> details,
              validationResults |-> results]

(***************************************************************************)
(* The handlers that only read the log table.                              *)
(***************************************************************************)
\* getTimestampSequence, getTimestampHistory, generateTimesheet: the caller
\* has one of the three roles, and an employee asks for the own data only;
\* the target employee exists
ReadPreCheck(role, caller, employeeId) ==
    IF ~isAuthorized(role, {"employee", "hr_admin", "manager_admin"}) THEN "Forbidden"
    ELSE IF role = "employee" /\ caller # employeeId THEN "ForbiddenNotOwner"
    ELSE IF validateEmployee(employeeId) = "EmployeeNotFound" THEN "EmployeeNotFound"
    ELSE "ok"

\* the query read oldest first: ScanIndexForward true
latestSequenceAscending(table) ==
    LET latestLog == IF table = {} THEN NoLog
                     ELSE CHOOSE e \in table : \A f \in table : e.timestamp <= f.timestamp
    IN  [latestSequenceNumber |-> latestLog.sequenceNumber,
         latestTimestamp |-> latestLog.timestamp,
         latestTimestampType |-> latestLog.timestampType,
         hashChain |-> latestLog.hashChain]

\* getTimestampSequence: the body of the 200 response
latestSequence(table) ==
    LET latestLog == getLatestTimestamp(table)
    IN  [latestSequenceNumber |-> latestLog.sequenceNumber,
         latestTimestamp |-> latestLog.timestamp,
         latestTimestampType |-> latestLog.timestampType,
         hashChain |-> latestLog.hashChain]

\* SK >= :start with a date as bound: the date is a prefix of every sort
\* key of that day
FromDate(timestamp, startDate) == timestamp >= startDate * DayMs

\* SK <= :end with a date as bound: every sort key of the end date itself
\* is longer than the date and sorts after it
UpToDate(timestamp, endDate) == timestamp < endDate * DayMs

\* getTimestampHistory: the key condition built from the query parameters
\* (NoDate: parameter absent), oldest first; the page limit is not reached
timestampHistory(table, startDate, endDate) ==
    fetchAllTimestampLogs(
        {e \in table :
            /\ startDate # NoDate => FromDate(e.timestamp, startDate)
            /\ endDate # NoDate => UpToDate(e.timestamp, endDate)})

\* generateTimesheet: Query PK = :pk AND SK BETWEEN :start AND :end, all pages
fetchAllLogsForRange(table, startDate, endDate) ==
    fetchAllTimestampLogs(
        {e \in table :
            FromDate(e.timestamp, startDate) /\ UpToDate(e.timestamp, endDate)})

\* callers of the reading handlers, all asking for employee E1
Readers == {<<"employee", "E1">>, <<"employee", "E2">>, <<"hr_admin", "E2">>,
            <<"none", "E1">>}

\* date ranges of the query parameters
HistoryRanges == {<<NoDate, NoDate>>, <<0, 1>>, <<1, NoDate>>}

TimesheetRanges == {<<0, 1>>, <<0, 2>>}

(***************************************************************************)
(* createAttendanceRecord: one record of the time-management table from    *)
(* the events of a day.                                                    *)
(***************************************************************************)
\* required fields employeeId, attendanceDate, workMode present and non-empty
validateAttendanceBody(body) ==
    body.employeeId # "" /\ body.attendanceDate # NoDate /\ body.workMode # ""

\* lines 121-142: the outcome before any table is read
AttPreCheck(role, caller, body) ==
    IF ~isAuthorized(role, {"employee"}) THEN "Forbidden"
    ELSE IF ~validateAttendanceBody(body) THEN "MissingField"
    ELSE IF caller # body.employeeId THEN "ForbiddenNotOwner"
    ELSE "ok"

\* the existence query finding nothing
existingAttendanceNone(table, employeeId, attendanceDate) == {}

\* Query GSI4PK = ATT#<employee> AND GSI4SK = DATE#<date> on the
\* time-management table
existingAttendance(table, employeeId, attendanceDate) ==
    {r \in table : r.employeeId = employeeId /\ r.attendanceDate = attendanceDate}

\* the first and the last day of the leave left out
validateLeaveConflictExclusive(table, employeeId, attendanceDate) ==
    \E leave \in table :
        /\ leave.employeeId = employeeId
        /\ leave.approvalStatus = "Approved"
        /\ attendanceDate > leave.startDate
        /\ attendanceDate < leave.endDate

\* some approved leave of the employee covers the date, bounds included
validateLeaveConflict(table, employeeId, attendanceDate) ==
    \E leave \in table :
        /\ leave.employeeId = employeeId
        /\ leave.approvalStatus = "Approved"
        /\ attendanceDate >= leave.startDate
        /\ attendanceDate <= leave.endDate

\* Query GSI1PK = DATE#<date>, filter employeeId: the items of the day
DayItems(table, employeeId, date) ==
    {e \in table : DateOnly(e.timestamp) = date /\ e.employeeId = employeeId}

\* the items of the day sorted by timestamp (thrown before: fewer than 2)
getLogsForDate(table, employeeId, date) ==
    fetchAllTimestampLogs(DayItems(table, employeeId, date))

\* the breaks of the day taken as one: the first BREAK_START to the last
\* BREAK_END
BreakDurationsMerged(logs, n) ==
    LET starts == {i \in 1..n : logs[i].timestampType = "BREAK_START"}
        ends == {i \in 1..n : logs[i].timestampType = "BREAK_END"}
    IN  IF starts = {} \/ ends = {} THEN <<>>
        ELSE <<logs[CHOOSE i \in ends : \A j \in ends : j <= i].timestamp
                 - logs[CHOOSE i \in starts : \A j \in starts : i <= j].timestamp>>

\* the durations added to totalBreakMs over the first n logs, in order
RECURSIVE BreakDurations(_, _)
BreakDurations(logs, n) ==
    IF n = 0 THEN <<>>
    ELSE BreakDurations(logs, n - 1)
         \o (IF /\ logs[n].timestampType = "BREAK_END"
                /\ BreakStartAfter(logs, n - 1) # NullTs
             THEN <<logs[n].timestamp - BreakStartAfter(logs, n - 1)>>
             ELSE <<>>)

RECURSIVE SumSeq(_)
SumSeq(q) == IF q = <<>> THEN 0 ELSE q[1] + SumSeq(Tail(q))

\* the hundredths cut off instead of rounded
toFixed2Floor(ms) == ms \div 36000

Abs(x) == IF x < 0 THEN 0 - x ELSE x

\* (ms / 3600000).toFixed(f) in units of 10^-f hour, the unit being so many
\* ms wide: the number of units nearest to the binary64 value of the
\* quotient.  Half-way between two numbers of units the binary64 value
\* decides: the smaller magnitude when it is below the exact quotient, the
\* larger when it is the exact quotient or above
toFixed(ms, unit, below) ==
    LET base == Abs(ms) \div unit
        rest == Abs(ms) % unit
        n == IF 2 * rest < unit THEN base
             ELSE IF 2 * rest > unit THEN base + 1
             ELSE IF below THEN base
             ELSE base + 1
    IN  IF ms >= 0 THEN n ELSE 0 - n

\* parseFloat((ms / 3600000).toFixed(2)) in hundredths of an hour
toFixed2(ms) == toFixed(ms, 36000, QuotientBelow(Abs(ms), HourMs))

\* organizational table, ORG#WBS#<code>: costCenter
WbsCostCenter(w) == IF w = X9 THEN "CC2" ELSE "CC1"

\* lines 86-99 of processTimestampLogs: the cost center of the code, none
\* (null) without a code or without an item for it
costCenter(wbsCode) ==
    IF wbsCode # NoWbs /\ WbsExists(wbsCode) THEN WbsCostCenter(wbsCode) ELSE ""

Min(S) == CHOOSE x \in S : \A y \in S : x <= y

\* the first log of the type, as Array.prototype.find gives it
FindType(logs, timestampType) ==
    logs[Min({i \in 1..Len(logs) : logs[i].timestampType = timestampType})]

HasType(logs, timestampType) ==
    \E i \in 1..Len(logs) : logs[i].timestampType = timestampType

\* processTimestampLogs: the first CLOCK_IN and the first CLOCK_OUT of the
\* day, the span between them, the breaks, the hours
processTimestampLogs(logs) ==
    IF ~HasType(logs, "CLOCK_IN") \/ ~HasType(logs, "CLOCK_OUT")
    THEN [error |-> "MissingClockBoundary", details |-> NoDetails]
    ELSE
    LET clockIn == FindType(logs, "CLOCK_IN")
        clockOut == FindType(logs, "CLOCK_OUT")
        totalDurationMs == clockOut.timestamp - clockIn.timestamp
        durations == BreakDurations(logs, Len(logs))
        totalBreakMs == SumSeq(durations)
        totalWorkMs == totalDurationMs - totalBreakMs
        regularMs == IF totalWorkMs < RegularHours * HourMs
                     THEN totalWorkMs ELSE RegularHours * HourMs
        overtimeMs == IF totalWorkMs - RegularHours * HourMs > 0
                      THEN totalWorkMs - RegularHours * HourMs ELSE 0
        wbsCode == clockIn.wbsCode
    IN  IF totalDurationMs > MaxWorkHours * 60 * 60 * 1000
        THEN [error |-> "ExcessiveWorkDuration", details |-> NoDetails]
        ELSE IF \E k \in 1..Len(durations) :
                    durations[k] > MaxSingleBreakMinutes * 60 * 1000
        THEN [error |-> "ExcessiveBreakDuration", details |-> NoDetails]
        ELSE [error |-> "ok",
              details |->
                [checkInTime |-> clockIn.timestamp,
                 checkOutTime |-> clockOut.timestamp,
                 totalHours |-> toFixed2(totalWorkMs),
                 regularHours |-> toFixed2(regularMs),
                 overtimeHours |-> toFixed(overtimeMs, 36000,
                                       QuotientBelow(Abs(totalWorkMs), HourMs)),
                 breaks |-> Cardinality({i \in 1..Len(logs) :
                                logs[i].timestampType = "BREAK_START"}),
                 wbsCode |-> wbsCode,
                 costCenter |-> costCenter(wbsCode)]]

\* the logs of the day processed without the count of the day's logs
AttValidationsNoCount(logTable, employeeId, attendanceDate) ==
    processTimestampLogs(getLogsForDate(logTable, employeeId, attendanceDate))

\* lines 158-159 of the handler on the log table as the query finds it: the
\* logs of the day, then the details
AttValidations(logTable, employeeId, attendanceDate) ==
    IF Cardinality(DayItems(logTable, employeeId, attendanceDate)) < 2
    THEN [error |-> "IncompleteDay", details |-> NoDetails]
    ELSE processTimestampLogs(getLogsForDate(logTable, employeeId, attendanceDate))

\* uuidv4(): an identifier that no stored item and no running invocation
\* holds
uuidv4(used) ==
    CHOOSE n \in 1..(Cardinality(used) + 1) :
        n \notin used /\ \A m \in 1..(n - 1) : m \in used

\* step 4: the item written to the time-management table
attendanceItem(p, attendanceId, createdAt) ==
    [attendanceId |-> attendanceId,
     employeeId |-> p.employeeId,
     attendanceDate |-> p.attendanceDate,
     checkInTime |-> p.details.checkInTime,
     checkOutTime |-> p.details.checkOutTime,
     totalHours |-> p.details.totalHours,
     regularHours |-> p.details.regularHours,
     overtimeHours |-> p.details.overtimeHours,
     breaks |-> p.details.breaks,
     wbsCode |-> p.details.wbsCode,
     costCenter |-> p.details.costCenter,
     workMode |-> p.workMode,
     createdBy |-> p.employeeId,
     createdAt |-> createdAt]

\* PutItem with ConditionExpression attribute_not_exists(PK), where
\* PK = TIME#ATT#<attendanceId>
PutAttendanceCommand(table, item) ==
    IF \E r \in table : r.attendanceId = item.attendanceId
    THEN [ok |-> FALSE, table |-> table]
    ELSE [ok |-> TRUE, table |-> table \cup {item}]

\* requests offered to createAttendanceRecord
AttDates == {0, 1}

CoreAttRequests ==
    {[role |-> "employee", caller |-> "E1",
      body |-> [employeeId |-> "E1", attendanceDate |-> d, workMode |-> "ONSITE"]] :
        d \in AttDates}

BaseAttRequest ==
    [role |-> "employee", caller |-> "E1",
     body |-> [employeeId |-> "E1", attendanceDate |-> 0, workMode |-> "ONSITE"]]

OtherAttRequests ==
    {[BaseAttRequest EXCEPT !.role = "hr_admin"],
     [BaseAttRequest EXCEPT !.body.workMode = ""],
     [BaseAttRequest EXCEPT !.caller = "E2"]}

AttRequests == CoreAttRequests \cup OtherAttRequests

(***************************************************************************)
(* The ledgers of a day: what createTimestamp stores for requests of       *)
(* employee E1 taken one at a time at the clock times DayTimes.            *)
(***************************************************************************)
ClockTime(h, m) == (h * 60 + m) * MinuteMs

DayTimes == {ClockTime(8, 0), ClockTime(10, 0), ClockTime(10, 15),
             ClockTime(10, 31), ClockTime(16, 0), ClockTime(16, 1),
             ClockTime(20, 1), DayMs + ClockTime(1, 0)}

DayTypes == {"CLOCK_IN", "CLOCK_OUT", "BREAK_START", "BREAK_END"}

\* the log table after a request of the type handled at the time
AppendAt(table, timestampType, timestamp) ==
    LET body == [BaseRequest.body EXCEPT !.timestampType = timestampType]
        latestLog == getLatestTimestamp(table)
        inv == [Idle EXCEPT !.employeeId = body.employeeId,
                            !.timestampType = timestampType,
                            !.wbsCode = ResolvedWbs(body),
                            !.timestamp = timestamp]
    IN  IF StateCheck(timestampType, timestamp, latestLog) = "ok"
        THEN PutItemCommand(table, BuildItem(inv, latestLog)).table
        ELSE table

\* the clock times after the latest event of the table
LaterTimes(table) ==
    {x \in DayTimes : table = {} \/ x > getLatestTimestamp(table).timestamp}

\* the log tables of at most n events
RECURSIVE LedgersUpTo(_)
LedgersUpTo(n) ==
    IF n = 0 THEN {{}}
    ELSE LET prev == LedgersUpTo(n - 1)
         IN  prev \cup
             UNION {{AppendAt(l, t, ts) : t \in DayTypes, ts \in LaterTimes(l)} :
                       l \in prev}

DayLedgers == LedgersUpTo(MaxDayEvents)

\* clock times of a day with breaks of 29, 30 and 31 minutes
BreakDayTimes == {ClockTime(8, 0), ClockTime(10, 0), ClockTime(10, 30),
                  ClockTime(10, 31), ClockTime(11, 0), ClockTime(16, 0)}

\* the log tables of at most n events at clock times of the set
RECURSIVE LedgersOver(_, _)
LedgersOver(times, n) ==
    IF n = 0 THEN {{}}
    ELSE LET prev == LedgersOver(times, n - 1)
         IN  prev \cup
             UNION {{AppendAt(l, t, ts) :
                        t \in DayTypes,
                        ts \in {x \in times :
                                  l = {} \/ x > getLatestTimestamp(l).timestamp}} :
                       l \in prev}

BreakDayLedgers == LedgersOver(BreakDayTimes, MaxBreakDayEvents)

\* leave requests of the time-management table
StoredLeave(employeeId, startDate, endDate, approvalStatus) ==
    [requestId |-> 1, employeeId |-> employeeId, leaveType |-> "VACATION",
     startDate |-> startDate, endDate |-> endDate,
     totalDays |-> endDate - startDate + 1, approvalStatus |-> approvalStatus]

LeaveRequests ==
    {StoredLeave("E1", 0, 1, st) : st \in {"Approved", "Pending", "Rejected"}}
    \cup {StoredLeave("E1", 1, 1, "Approved"), StoredLeave("E2", 0, 1, "Approved")}

LeaveTables == {{}} \cup {{leave} : leave \in LeaveRequests}

(***************************************************************************)
(* createLeaveRequest and updateLeaveRequestStatus: the handlers that      *)
(* write the leave requests createAttendanceRecord reads.                  *)
(***************************************************************************)
\* the item CONFIG#LEAVE / SINGLETON of the time-management table:
\* validationRules and leavePolicy (entitlements in days)
LeaveConfig ==
    [minNoticePeriod |-> 1, maxDuration |-> 2, requireManagerApproval |-> TRUE,
     autoApprovalLimitDays |-> 0,
     leavePolicy |-> [VACATION |-> 3, UNPAID |-> 0]]

\* getActiveLeavesForEmployee: the Pending and Approved requests of the
\* employee
getActiveLeavesForEmployee(table, employeeId) ==
    {leave \in table : /\ leave.employeeId = employeeId
                       /\ leave.approvalStatus \in {"Pending", "Approved"}}

\* existingLeaves.filter(l => l.leaveType === leaveType)
\*               .reduce((acc, l) => acc + l.totalDays, 0)
RECURSIVE usedBalance(_, _)
usedBalance(existingLeaves, leaveType) ==
    IF existingLeaves = {} THEN 0
    ELSE LET leave == CHOOSE l \in existingLeaves : TRUE
         IN  (IF leave.leaveType = leaveType THEN leave.totalDays ELSE 0)
             + usedBalance(existingLeaves \ {leave}, leaveType)

\* createLeaveRequest, lines 68-90: authorization, ownership, required
\* fields, the order of the two dates
LeavePreCheck(role, caller, body) ==
    IF ~isAuthorized(role, {"employee"}) THEN "Forbidden"
    ELSE IF caller # body.employeeId THEN "ForbiddenNotOwner"
    ELSE IF body.employeeId = "" \/ body.leaveType = "" THEN "MissingField"
    ELSE IF body.endDate < body.startDate THEN "InvalidDateRange"
    ELSE "ok"

\* (end - start) / (1000 * 60 * 60 * 24) + 1 of a request without halfDay
totalDays(body) == (body.endDate * DayMs - body.startDate * DayMs) \div DayMs + 1

\* createLeaveRequest, lines 101-146: the business rules on the
\* configuration and the active leaves read, at the time of the validation
validateLeaveRequest(config, existingLeaves, body, time) ==
    LET start == body.startDate * DayMs
        end == body.endDate * DayMs
        today == (time \div DayMs) * DayMs
        minNoticeDate == time + config.minNoticePeriod * DayMs
        remainingBalance == config.leavePolicy[body.leaveType]
                            - usedBalance(existingLeaves, body.leaveType)
        Max(a, b) == IF a >= b THEN a ELSE b
        Least(a, b) == IF a <= b THEN a ELSE b
    IN  IF \/ body.leaveType \notin DOMAIN config.leavePolicy
           \/ config.leavePolicy[body.leaveType] = 0
        THEN "InvalidLeaveType"
        ELSE IF ~body.isEmergency /\ start < minNoticeDate THEN "NoticePeriod"
        ELSE IF ~body.isEmergency /\ start < today THEN "PastDate"
        ELSE IF totalDays(body) > config.maxDuration THEN "ExcessiveLeaveDuration"
        ELSE IF \E leave \in existingLeaves :
                    Max(start, leave.startDate * DayMs)
                        <= Least(end, leave.endDate * DayMs)
        THEN "LeaveOverlap"
        ELSE IF totalDays(body) > remainingBalance THEN "InsufficientBalance"
        ELSE IF /\ config.requireManagerApproval = FALSE
                /\ totalDays(body) > config.autoApprovalLimitDays
        THEN "AutoApprovalLimit"
        ELSE "ok"

\* the status a request is stored with
approvalStatus(config) ==
    IF config.requireManagerApproval = FALSE THEN "Approved" ELSE "Pending"

\* the item createLeaveRequest writes
leaveItem(body, requestId, status) ==
    [requestId |-> requestId, employeeId |-> body.employeeId,
     leaveType |-> body.leaveType, startDate |-> body.startDate,
     endDate |-> body.endDate, totalDays |-> totalDays(body),
     approvalStatus |-> status]

\* requests offered to createLeaveRequest: an emergency request of E1 for
\* the days 0 and 1, the same without the emergency flag, with the dates
\* exchanged, for three days, of a type with no entitlement, and by a
\* caller who is no employee
BaseLeaveRequest ==
    [role |-> "employee", caller |-> "E1",
     body |-> [employeeId |-> "E1", leaveType |-> "VACATION", startDate |-> 0,
               endDate |-> 1, isEmergency |-> TRUE]]

CreateLeaveRequests ==
    {BaseLeaveRequest,
     [BaseLeaveRequest EXCEPT !.body.isEmergency = FALSE],
     [BaseLeaveRequest EXCEPT !.body.startDate = 1, !.body.endDate = 0],
     [BaseLeaveRequest EXCEPT !.body.endDate = 2],
     [BaseLeaveRequest EXCEPT !.body.leaveType = "UNPAID"],
     [BaseLeaveRequest EXCEPT !.role = "hr_admin"]}

\* updateLeaveRequestStatus, lines 21-37: authorization, required fields,
\* the new status, the reason of a rejection
StatusPreCheck(role, body) ==
    IF ~isAuthorized(role, {"manager_admin"}) THEN "Forbidden"
    ELSE IF body.requestId = 0 \/ body.newStatus = "" THEN "MissingField"
    ELSE IF body.newStatus \notin {"Approved", "Rejected"} THEN "InvalidStatus"
    ELSE IF body.newStatus = "Rejected" /\ ~body.rejectionReason
    THEN "MissingReason"
    ELSE "ok"

\* updateLeaveRequestStatus, lines 42-53, on the item the GetItem finds
StatusReadCheck(table, requestId) ==
    IF ~\E leave \in table : leave.requestId = requestId THEN "LeaveNotFound"
    ELSE IF \E leave \in table : /\ leave.requestId = requestId
                                  /\ leave.approvalStatus # "Pending"
    THEN "AlreadyFinalized"
    ELSE "ok"

\* UpdateItem SET approvalStatus = :newStatus with ConditionExpression
\* approvalStatus = :pendingStatus
UpdateLeaveCommand(table, requestId, newStatus) ==
    IF \E leave \in table : /\ leave.requestId = requestId
                             /\ leave.approvalStatus = "Pending"
    THEN [ok |-> TRUE,
          table |-> {IF leave.requestId = requestId
                     THEN [leave EXCEPT !.approvalStatus = newStatus]
                     ELSE leave : leave \in table}]
    ELSE [ok |-> FALSE, table |-> table]

\* a manager approves one of the requests
ApproveRequests ==
    {[role |-> "manager_admin",
      body |-> [requestId |-> k, newStatus |-> "Approved",
                rejectionReason |-> FALSE]] : k \in 1..MaxLeaves}

\* requests offered to updateLeaveRequestStatus: a manager approves or
\* rejects, with a reason, one of the requests; an employee tries to
StatusRequests ==
    {[role |-> "manager_admin",
      body |-> [requestId |-> k, newStatus |-> st, rejectionReason |-> TRUE]] :
        k \in 1..MaxLeaves, st \in {"Approved", "Rejected"}}
    \cup {[role |-> "employee",
           body |-> [requestId |-> 1, newStatus |-> "Approved",
                     rejectionReason |-> TRUE]]}

(***************************************************************************)
(* generateTimesheet: calculatePayrollDetails.  Hours of a segment and of  *)
(* a day are integers in thousandths of an hour (toFixed(3)), the hours of *)
(* the weekly summary in hundredths (toFixed(2)).                          *)
(***************************************************************************)
\* parseFloat((ms / 3600000).toFixed(3)) in thousandths of an hour
toFixed3(ms) == toFixed(ms, 3600, QuotientBelow(Abs(ms), HourMs))

\* parseFloat(v.toFixed(2)) in hundredths, of the binary64 value v of a
\* sum that is x thousandths but for the rounding of the additions: the
\* nearest hundredth, and at 5 thousandths the value decides as in toFixed
toFixed2OfThousandths(x, v) ==
    IF x % 10 < 5 THEN x \div 10
    ELSE IF x % 10 > 5 THEN x \div 10 + 1
    ELSE IF Below64(v, x, 1000) THEN x \div 10
    ELSE x \div 10 + 1

NoSegment == [startTime |-> NullTs, wbsCode |-> NoWbs]

OpeningTypes == {"CLOCK_IN", "WBS_CHANGE", "BREAK_END"}

ClosingTypes == {"WBS_CHANGE", "CLOCK_OUT", "BREAK_START"}

\* currentSegment with no segment opened at BREAK_END
RECURSIVE SegmentAfterNoBreakEnd(_, _)
SegmentAfterNoBreakEnd(logs, n) ==
    IF n = 0 THEN NoSegment
    ELSE IF logs[n].timestampType \in {"CLOCK_IN", "WBS_CHANGE"}
         THEN [startTime |-> logs[n].timestamp, wbsCode |-> logs[n].wbsCode]
    ELSE IF logs[n].timestampType \in ClosingTypes THEN NoSegment
    ELSE SegmentAfterNoBreakEnd(logs, n - 1)

\* currentSegment after the first n logs (NoSegment: null)
RECURSIVE SegmentAfter(_, _)
SegmentAfter(logs, n) ==
    IF n = 0 THEN NoSegment
    ELSE IF logs[n].timestampType \in OpeningTypes
         THEN [startTime |-> logs[n].timestamp, wbsCode |-> logs[n].wbsCode]
    ELSE IF logs[n].timestampType \in ClosingTypes THEN NoSegment
    ELSE SegmentAfter(logs, n - 1)

\* dailyHours[date].allocations after the first n logs: a segment is pushed
\* under the date of the event that closes it
RECURSIVE AllocationsOn(_, _, _)
AllocationsOn(logs, n, date) ==
    IF n = 0 THEN <<>>
    ELSE AllocationsOn(logs, n - 1, date)
         \o (IF /\ SegmentAfter(logs, n - 1) # NoSegment
                /\ logs[n].timestampType \in ClosingTypes
                /\ DateOnly(logs[n].timestamp) = date
             THEN <<[startTime |-> SegmentAfter(logs, n - 1).startTime,
                     wbsCode |-> SegmentAfter(logs, n - 1).wbsCode,
                     endTime |-> logs[n].timestamp,
                     totalHours |-> toFixed3(logs[n].timestamp
                                        - SegmentAfter(logs, n - 1).startTime)]>>
             ELSE <<>>)

\* allocations.reduce((acc, seg) => acc + seg.totalHours, 0)
RECURSIVE SumHours(_)
SumHours(allocations) ==
    IF allocations = <<>> THEN 0
    ELSE allocations[1].totalHours + SumHours(Tail(allocations))

\* the entry of a date after the daily pass, its hours as the thousandths
\* nearest the binary64 sums (weeklySummary adds the binary64 values
\* themselves).  The break time subtracted from
\* totalHours in the loop (line 80) is overwritten here by the sum of the
\* allocations (line 87)
DayEntryOf(allocations) ==
    LET totalHours == SumHours(allocations)
    IN  [totalHours |-> totalHours,
         allocations |-> allocations,
         dailyRegularHours |-> IF totalHours < RegularHours * 1000
                               THEN totalHours ELSE RegularHours * 1000,
         dailyOvertimeHours |-> IF totalHours - RegularHours * 1000 > 0
                                THEN totalHours - RegularHours * 1000 ELSE 0]

\* allocations.reduce((acc, seg) => acc + seg.totalHours, 0) over the first
\* n allocations, as the binary64 value the additions give
RECURSIVE SumHours64(_, _)
SumHours64(allocations, n) ==
    IF n = 0 THEN Zero64
    ELSE Add64(SumHours64(allocations, n - 1),
               Divide64(allocations[n].totalHours, 1000))

\* totalHours, dailyRegularHours = Math.min(totalHours, 8) and
\* dailyOvertimeHours = Math.max(0, totalHours - 8) of a day as binary64
\* values
DayHours64(day, field) ==
    LET totalHours == SumHours64(day.allocations, Len(day.allocations))
        eight == Divide64(RegularHours, 1)
    IN  IF field = "totalHours" THEN totalHours
        ELSE IF field = "dailyRegularHours"
        THEN IF Greater64(totalHours, eight) THEN eight ELSE totalHours
        ELSE IF Greater64(totalHours, eight) THEN Sub64(totalHours, eight)
        ELSE Zero64

\* the sum of a field over the days in the order of the dates, as the
\* binary64 value the additions give
RECURSIVE SumDays64(_, _, _)
SumDays64(dailyHours, dates, field) ==
    IF dates = {} THEN Zero64
    ELSE LET d == CHOOSE x \in dates : \A y \in dates : y <= x
         IN  Add64(SumDays64(dailyHours, dates \ {d}, field),
                   DayHours64(dailyHours[d], field))

\* Math.max(0, weeklySummary.regularHours - limit) as a binary64 value
weeklyOvertime64(dailyHours, dates, limit) ==
    LET regularHours == SumDays64(dailyHours, dates, "dailyRegularHours")
    IN  IF Greater64(regularHours, Divide64(limit, 1))
        THEN Sub64(regularHours, Divide64(limit, 1))
        ELSE Zero64

DayEntry(logs, date) == DayEntryOf(AllocationsOn(logs, Len(logs), date))

\* the sum of a field over the days
RECURSIVE SumDays(_, _, _)
SumDays(dailyHours, dates, field) ==
    IF dates = {} THEN 0
    ELSE LET d == CHOOSE x \in dates : TRUE
         IN  dailyHours[d][field] + SumDays(dailyHours, dates \ {d}, field)

\* the weekly threshold lowered to the daily one
calculatePayrollDetailsNoWeekly(logs) ==
    LET dates == {DateOnly(logs[i].timestamp) : i \in 1..Len(logs)}
        dailyHours == [d \in dates |-> DayEntry(logs, d)]
        regularHours == SumDays(dailyHours, dates, "dailyRegularHours")
        weeklyOvertime == IF regularHours - RegularHours * 1000 > 0
                          THEN regularHours - RegularHours * 1000 ELSE 0
    IN  [dailyBreakdown |-> dailyHours,
         weeklySummary |->
            [totalHours |-> toFixed2OfThousandths(
                SumDays(dailyHours, dates, "totalHours"),
                SumDays64(dailyHours, dates, "totalHours")),
             regularHours |-> toFixed2OfThousandths(
                regularHours - weeklyOvertime,
                Sub64(SumDays64(dailyHours, dates, "dailyRegularHours"),
                      weeklyOvertime64(dailyHours, dates, RegularHours))),
             overtimeHours |-> toFixed2OfThousandths(
                weeklyOvertime + SumDays(dailyHours, dates, "dailyOvertimeHours"),
                Add64(weeklyOvertime64(dailyHours, dates, RegularHours),
                      SumDays64(dailyHours, dates, "dailyOvertimeHours")))]]

\* the weekly overtime added to the overtime hours and left in the regular
\* hours
calculatePayrollDetailsDoubleCount(logs) ==
    LET dates == {DateOnly(logs[i].timestamp) : i \in 1..Len(logs)}
        dailyHours == [d \in dates |-> DayEntry(logs, d)]
        regularHours == SumDays(dailyHours, dates, "dailyRegularHours")
        weeklyOvertime == IF regularHours - WeeklyRegularHours * 1000 > 0
                          THEN regularHours - WeeklyRegularHours * 1000 ELSE 0
    IN  [dailyBreakdown |-> dailyHours,
         weeklySummary |->
            [totalHours |-> toFixed2OfThousandths(
                SumDays(dailyHours, dates, "totalHours"),
                SumDays64(dailyHours, dates, "totalHours")),
             regularHours |-> toFixed2OfThousandths(
                regularHours,
                SumDays64(dailyHours, dates, "dailyRegularHours")),
             overtimeHours |-> toFixed2OfThousandths(
                weeklyOvertime + SumDays(dailyHours, dates, "dailyOvertimeHours"),
                Add64(weeklyOvertime64(dailyHours, dates, WeeklyRegularHours),
                      SumDays64(dailyHours, dates, "dailyOvertimeHours")))]]

\* lines 92-108 of calculatePayrollDetails: the weekly summary of the days
weeklySummary(dailyHours, dates) ==
    LET regularHours == SumDays(dailyHours, dates, "dailyRegularHours")
        weeklyOvertime == IF regularHours - WeeklyRegularHours * 1000 > 0
                          THEN regularHours - WeeklyRegularHours * 1000 ELSE 0
    IN  [totalHours |-> toFixed2OfThousandths(
            SumDays(dailyHours, dates, "totalHours"),
            SumDays64(dailyHours, dates, "totalHours")),
         regularHours |-> toFixed2OfThousandths(
            regularHours - weeklyOvertime,
            Sub64(SumDays64(dailyHours, dates, "dailyRegularHours"),
                  weeklyOvertime64(dailyHours, dates, WeeklyRegularHours))),
         overtimeHours |-> toFixed2OfThousandths(
            weeklyOvertime + SumDays(dailyHours, dates, "dailyOvertimeHours"),
            Add64(weeklyOvertime64(dailyHours, dates, WeeklyRegularHours),
                  SumDays64(dailyHours, dates, "dailyOvertimeHours")))]

\* calculatePayrollDetails on the logs sorted by timestamp
calculatePayrollDetails(logs) ==
    LET dates == {DateOnly(logs[i].timestamp) : i \in 1..Len(logs)}
        dailyHours == [d \in dates |-> DayEntry(logs, d)]
    IN  [dailyBreakdown |-> dailyHours,
         weeklySummary |-> weeklySummary(dailyHours, dates)]

\* the log table after a request with the body handled at the time
AppendRequest(table, body, timestamp) ==
    LET latestLog == getLatestTimestamp(table)
        inv == [Idle EXCEPT !.employeeId = body.employeeId,
                            !.timestampType = body.timestampType,
                            !.wbsCode = ResolvedWbs(body),
                            !.timestamp = timestamp]
    IN  IF StateCheck(body.timestampType, timestamp, latestLog) = "ok"
        THEN PutItemCommand(table, BuildItem(inv, latestLog)).table
        ELSE table

\* the requests of employee E1 that build the ledgers of the timesheets:
\* every type without a code, and WBS_CHANGE to W2
SheetRequests ==
    {r \in CoreRequests \cup WbsRequests :
        /\ r.body.timestampType \in TimestampTypes
        /\ r.body.timestampType = "WBS_CHANGE" => r.body.wbsChangeReason}

\* clock times of the timesheet ledgers: whole hours of day 0 and 02:00 of
\* day 1
SheetTimes == {ClockTime(8, 0), ClockTime(10, 0), ClockTime(12, 0),
               ClockTime(13, 0), ClockTime(18, 0), DayMs + ClockTime(2, 0)}

\* the log tables of at most n events of the requests at the clock times
RECURSIVE SheetLedgersUpTo(_)
SheetLedgersUpTo(n) ==
    IF n = 0 THEN {{}}
    ELSE LET prev == SheetLedgersUpTo(n - 1)
         IN  prev \cup
             UNION {{AppendRequest(l, r.body, ts) :
                        r \in SheetRequests,
                        ts \in {x \in SheetTimes :
                                  l = {} \/ x > getLatestTimestamp(l).timestamp}} :
                       l \in prev}

\* hours from CLOCK_IN at 08:00 to CLOCK_OUT of the days of a week
ShiftHours == {8, 9}

\* the log tables of weeks of n days, one shift a day
RECURSIVE WeekLedgers(_)
WeekLedgers(n) ==
    IF n = 0 THEN {{}}
    ELSE {AppendAt(AppendAt(l, "CLOCK_IN", (n - 1) * DayMs + ClockTime(8, 0)),
                   "CLOCK_OUT", (n - 1) * DayMs + ClockTime(8 + h, 0)) :
            l \in WeekLedgers(n - 1), h \in ShiftHours}

SheetLedgers ==
    SheetLedgersUpTo(MaxSheetEvents) \cup UNION {WeekLedgers(n) : n \in 1..MaxWeekDays}

\* date ranges of the timesheets of the ledgers above
SheetRanges == {<<0, 1>>, <<0, 2>>, <<0, MaxWeekDays + 2>>}

InFlight == {p \in Procs : proc[p].pc \in {"stamped", "read"}}

(***************************************************************************)
(* Initial state: empty tables, nothing in flight.                         *)
(***************************************************************************)
Init ==
    /\ now = 0
    /\ ticks = 0
    /\ ledger = {}
    /\ proc = [p \in Procs |-> Idle]
    /\ tampered = NoLog
    /\ attendance = {}
    /\ leaves = {}

(***************************************************************************)
(* Actions.                                                                *)
(***************************************************************************)
\* the wall clock moves
TickBy(sizes, cap) ==
    /\ ticks < cap
    /\ \E d \in sizes : now' = now + d
    /\ ticks' = ticks + 1
    /\ UNCHANGED <<ledger, proc, tampered, attendance, leaves>>

TickUpTo(cap) == TickBy(TickSizes, cap)

Tick == TickUpTo(MaxTicks)

TickOps == TickUpTo(MaxOpsTicks)

\* the clock moves by a millisecond
TickMs == TickBy({1}, MaxOpsTicks)

\* createTimestamp, lines 78-122: authorization, input validation, employee
\* and WBS validation, then the timestamp is taken from the clock
BeginEvent(p, event, cap) ==
    /\ proc[p].pc \in {"idle", "done"}
    /\ Cardinality(ledger) + Cardinality(InFlight) < cap
    /\ LET body == event.body
           pre == PreCheck(event.role, event.caller, body)
       IN  proc' = [proc EXCEPT ![p] =
               IF pre # "ok" THEN Done(pre)
               ELSE [Idle EXCEPT !.pc = "stamped",
                                 !.employeeId = body.employeeId,
                                 !.timestampType = body.timestampType,
                                 !.wbsCode = ResolvedWbs(body),
                                 !.reason = body.wbsChangeReason,
                                 !.timestamp = now,
                                 !.wbsChange =
                                     IF "wbsChange" \in DOMAIN event
                                     THEN event.wbsChange ELSE "none"]]
    /\ UNCHANGED <<now, ticks, ledger, tampered, attendance, leaves>>

BeginWith(p, requests, cap) == \E event \in requests : BeginEvent(p, event, cap)

Begin(p) == BeginWith(p, Requests, MaxEvents)

BeginOps(p) == BeginWith(p, Requests, MaxOpsEvents)

BeginConcurrent(p) == BeginWith(p, CoreRequests, MaxConcEvents)

\* createTimestamp, lines 123-194: read the latest log, validate the state
\* machine and the gap, build the item, require the WBS change reason
ReadLatest(p) ==
    /\ proc[p].pc = "stamped"
    /\ LET latestLog == getLatestTimestamp(ledger)
           chk == StateCheck(proc[p].timestampType, proc[p].timestamp, latestLog)
           err == IF chk # "ok" THEN chk
                  ELSE IF proc[p].timestampType = "WBS_CHANGE" /\ ~proc[p].reason
                       THEN "MissingWbsChangeReason"
                  ELSE "ok"
       IN  proc' = [proc EXCEPT ![p] =
               IF err # "ok" THEN Done(err)
               ELSE [Idle EXCEPT !.pc = "read", !.latestLog = latestLog,
                                 !.item = BuildItem(proc[p], latestLog),
                                 !.wbsChange = proc[p].wbsChange,
                                 !.entryPoint = proc[p].entryPoint]]
    /\ UNCHANGED <<now, ticks, ledger, tampered, attendance, leaves>>

\* createTimestamp, lines 198-223: the conditional put and the response;
\* changeWbsCode hands an error on and answers a 201 with its own 200
PutItem(p) ==
    /\ proc[p].pc = "read"
    /\ LET put == PutItemCommand(ledger, proc[p].item)
       IN  /\ ledger' = put.table
           /\ proc' = [proc EXCEPT ![p] =
                  Done(IF ~put.ok THEN "ConditionalCheckFailed"
                       ELSE IF proc[p].entryPoint = "changeWbsCode"
                            THEN "Recorded" ELSE "Created")]
    /\ UNCHANGED <<now, ticks, tampered, attendance, leaves>>

\* validateTimestamps: authorization, then the replay of the fetched logs
ValidateAs(p, role) ==
    /\ proc[p].pc \in {"idle", "done"}
    /\ proc' = [proc EXCEPT ![p] =
           IF ~isAuthorized(role, {"hr_admin", "manager_admin"})
           THEN Done("Forbidden")
           ELSE [Done("Report") EXCEPT
                    !.report = validateLedger(fetchAllTimestampLogs(ledger))]]
    /\ UNCHANGED <<now, ticks, ledger, tampered, attendance, leaves>>

Validate(p) == \E role \in Roles : ValidateAs(p, role)

\* a stored item is edited behind the API: its hashChain is replaced by a
\* wrong value (once); tampered keeps the item as it was.  No invocation is
\* running, and the responses returned before the edit are dropped.
Tamper ==
    /\ tampered = NoLog
    /\ \A p \in Procs : proc[p].pc \in {"idle", "done"}
    /\ \E e \in ledger, h \in {BadHash, GENESIS} :
        /\ h # e.hashChain
        /\ ledger' = (ledger \ {e}) \cup {[e EXCEPT !.hashChain = h]}
        /\ tampered' = e
    /\ proc' = [p \in Procs |-> Idle]
    /\ UNCHANGED <<now, ticks, attendance, leaves>>

\* createAttendanceRecord, lines 121-153: authorization, input validation,
\* ownership, then the query for a record of the same employee and date
AttBeginWith(p, requests) ==
    /\ proc[p].pc \in {"idle", "done"}
    /\ \E event \in requests :
        LET body == event.body
            pre == AttPreCheck(event.role, event.caller, body)
        IN  proc' = [proc EXCEPT ![p] =
                IF pre # "ok" THEN Done(pre)
                ELSE IF existingAttendance(attendance, body.employeeId,
                                           body.attendanceDate) # {}
                     THEN AttDone(body.employeeId, body.attendanceDate, "Conflict")
                ELSE [Idle EXCEPT !.pc = "attChecked",
                                  !.employeeId = body.employeeId,
                                  !.attendanceDate = body.attendanceDate,
                                  !.workMode = body.workMode]]
    /\ UNCHANGED <<now, ticks, ledger, tampered, attendance, leaves>>

AttBegin(p) == AttBeginWith(p, AttRequests)

AttBeginConcurrent(p) == AttBeginWith(p, CoreAttRequests)

\* the identifiers of the attendance records stored or built
AttendanceIds == {r.attendanceId : r \in attendance}
                 \cup ({proc[p].attendanceId : p \in Procs} \ {0})

\* createAttendanceRecord, line 157: the query for the approved leaves of
\* the employee
AttLeaveQuery(p) ==
    /\ proc[p].pc = "attChecked"
    /\ proc' = [proc EXCEPT ![p] =
           IF validateLeaveConflict(leaves, proc[p].employeeId,
                                    proc[p].attendanceDate)
           THEN AttDone(proc[p].employeeId, proc[p].attendanceDate,
                        "LeaveConflict")
           ELSE [proc[p] EXCEPT !.pc = "attLeaveChecked"]]
    /\ UNCHANGED <<now, ticks, ledger, tampered, attendance, leaves>>

\* createAttendanceRecord, lines 158-159: the query for the logs of the day
\* and the hours computed from them.  With a code on the CLOCK_IN the
\* handler goes on to read the organization table; without one the item is
\* built at once (lines 164-183: its identifier, and createdAt from the
\* clock)
AttLogQuery(p) ==
    /\ proc[p].pc = "attLeaveChecked"
    /\ LET res == AttValidations(ledger, proc[p].employeeId,
                                 proc[p].attendanceDate)
       IN  proc' = [proc EXCEPT ![p] =
               IF res.error # "ok"
               THEN AttDone(proc[p].employeeId, proc[p].attendanceDate, res.error)
               ELSE IF res.details.wbsCode # NoWbs
               THEN [proc[p] EXCEPT !.pc = "attLogsRead",
                                    !.details = [res.details EXCEPT
                                                    !.costCenter = ""]]
               ELSE [proc[p] EXCEPT !.pc = "attProcessed",
                                    !.details = res.details,
                                    !.attendanceId = uuidv4(AttendanceIds),
                                    !.createdAt = now]]
    /\ UNCHANGED <<now, ticks, ledger, tampered, attendance, leaves>>

\* createAttendanceRecord, lines 91-99 and 164-183: the GetItem for the
\* cost center of the code, then the item is built
AttOrgGet(p) ==
    /\ proc[p].pc = "attLogsRead"
    /\ proc' = [proc EXCEPT ![p] =
           [proc[p] EXCEPT !.pc = "attProcessed",
                           !.details.costCenter =
                               costCenter(proc[p].details.wbsCode),
                           !.attendanceId = uuidv4(AttendanceIds),
                           !.createdAt = now]]
    /\ UNCHANGED <<now, ticks, ledger, tampered, attendance, leaves>>

\* createAttendanceRecord, lines 185-197: the conditional put of the item
\* built and the response
AttPut(p) ==
    /\ proc[p].pc = "attProcessed"
    /\ LET item == attendanceItem(proc[p], proc[p].attendanceId,
                                  proc[p].createdAt)
           put == PutAttendanceCommand(attendance, item)
       IN  /\ attendance' = put.table
           /\ proc' = [proc EXCEPT ![p] =
                  IF put.ok
                  THEN [AttDone(item.employeeId, item.attendanceDate, "Created")
                            EXCEPT !.attendanceId = item.attendanceId]
                  ELSE AttDone(item.employeeId, item.attendanceDate,
                               "ConditionalCheckFailed")]
    /\ UNCHANGED <<now, ticks, ledger, tampered, leaves>>

\* the identifiers of the leave requests stored or built
LeaveIds == {leave.requestId : leave \in leaves}
            \cup ({proc[p].leave.requestId : p \in Procs} \ {0})

\* createLeaveRequest, lines 68-165: the checks on the request, the reads
\* of the configuration and of the active leaves, the business rules, the
\* item
LeaveBeginWith(p, requests) ==
    /\ proc[p].pc \in {"idle", "done"}
    /\ Cardinality(LeaveIds) < MaxLeaves
    /\ \E event \in requests :
        LET body == event.body
            pre == LeavePreCheck(event.role, event.caller, body)
            rules == validateLeaveRequest(LeaveConfig,
                         getActiveLeavesForEmployee(leaves, body.employeeId),
                         body, now)
        IN  proc' = [proc EXCEPT ![p] =
                IF pre # "ok" THEN Done(pre)
                ELSE IF rules # "ok" THEN Done(rules)
                ELSE [Idle EXCEPT !.pc = "leaveBuilt",
                                  !.leave = leaveItem(body, uuidv4(LeaveIds),
                                                approvalStatus(LeaveConfig))]]
    /\ UNCHANGED <<now, ticks, ledger, tampered, attendance, leaves>>

LeaveBegin(p) == LeaveBeginWith(p, CreateLeaveRequests)

LeaveBeginEmergency(p) == LeaveBeginWith(p, {BaseLeaveRequest})

\* createLeaveRequest, lines 167-173: the put of the item (its key is new)
\* and the response
LeavePut(p) ==
    /\ proc[p].pc = "leaveBuilt"
    /\ leaves' = leaves \cup {proc[p].leave}
    /\ proc' = [proc EXCEPT ![p] =
           [Done("LeaveCreated") EXCEPT !.leave = proc[p].leave]]
    /\ UNCHANGED <<now, ticks, ledger, tampered, attendance>>

\* updateLeaveRequestStatus, lines 21-53: the checks on the request, the
\* GetItem of the leave request, which must be Pending
StatusBeginWith(p, requests) ==
    /\ proc[p].pc \in {"idle", "done"}
    /\ \E event \in requests :
        LET body == event.body
            pre == StatusPreCheck(event.role, body)
            read == StatusReadCheck(leaves, body.requestId)
        IN  proc' = [proc EXCEPT ![p] =
                IF pre # "ok" THEN Done(pre)
                ELSE IF read # "ok" THEN Done(read)
                ELSE [Idle EXCEPT !.pc = "statusRead",
                                  !.leave = [NoLeave EXCEPT
                                      !.requestId = body.requestId,
                                      !.approvalStatus = body.newStatus]]]
    /\ UNCHANGED <<now, ticks, ledger, tampered, attendance, leaves>>

StatusBegin(p) == StatusBeginWith(p, StatusRequests)

StatusBeginApprove(p) == StatusBeginWith(p, ApproveRequests)

\* updateLeaveRequestStatus, lines 74-89: the conditional update and the
\* response
StatusUpdate(p) ==
    /\ proc[p].pc = "statusRead"
    /\ LET update == UpdateLeaveCommand(leaves, proc[p].leave.requestId,
                                        proc[p].leave.approvalStatus)
       IN  /\ leaves' = update.table
           /\ proc' = [proc EXCEPT ![p] =
                  IF update.ok THEN Done("LeaveUpdated")
                  ELSE Done("ConditionalCheckFailed")]
    /\ UNCHANGED <<now, ticks, ledger, tampered, attendance>>

\* getTimestampSequence: authorization, then the latest log
GetSequence(p) ==
    /\ proc[p].pc \in {"idle", "done"}
    /\ \E caller \in Readers :
        LET pre == ReadPreCheck(caller[1], caller[2], "E1")
        IN  proc' = [proc EXCEPT ![p] =
                IF pre # "ok" THEN Done(pre)
                ELSE [Done("Sequence") EXCEPT !.report = latestSequence(ledger)]]
    /\ UNCHANGED <<now, ticks, ledger, tampered, attendance, leaves>>

\* getTimestampHistory: authorization, then one page of the logs
GetHistory(p) ==
    /\ proc[p].pc \in {"idle", "done"}
    /\ \E caller \in Readers, range \in HistoryRanges :
        LET pre == ReadPreCheck(caller[1], caller[2], "E1")
        IN  proc' = [proc EXCEPT ![p] =
                IF pre # "ok" THEN Done(pre)
                ELSE [Done("History") EXCEPT
                         !.report = [timestamps |->
                             timestampHistory(ledger, range[1], range[2])]]]
    /\ UNCHANGED <<now, ticks, ledger, tampered, attendance, leaves>>

\* generateTimesheet: authorization, then the logs of the range; the
\* response is computed from these logs alone
GenerateTimesheetOver(p, ranges) ==
    /\ proc[p].pc \in {"idle", "done"}
    /\ \E caller \in Readers, range \in ranges :
        LET pre == ReadPreCheck(caller[1], caller[2], "E1")
            allLogs == fetchAllLogsForRange(ledger, range[1], range[2])
            payroll == calculatePayrollDetails(allLogs)
        IN  proc' = [proc EXCEPT ![p] =
                IF pre # "ok" THEN Done(pre)
                ELSE IF Len(allLogs) = 0 THEN Done("NoLogsInRange")
                ELSE [Done("Timesheet") EXCEPT
                         !.report = [dateRange |-> range,
                                     weeklySummary |-> payroll.weeklySummary,
                                     dailyBreakdown |-> payroll.dailyBreakdown]]]
    /\ UNCHANGED <<now, ticks, ledger, tampered, attendance, leaves>>

GenerateTimesheet(p) == GenerateTimesheetOver(p, TimesheetRanges)

GenerateSheet(p) == GenerateTimesheetOver(p, SheetRanges)

\* concurrent invocations of createTimestamp
Next ==
    \/ Tick
    \/ \E p \in Procs : BeginConcurrent(p)
    \/ \E p \in Procs : ReadLatest(p)
    \/ \E p \in Procs : PutItem(p)

Spec == Init /\ [][Next]_vars

\* createTimestamp invocations processed one at a time, and audits
NextSeq ==
    \/ Tick
    \/ Begin("p1")
    \/ ReadLatest("p1")
    \/ PutItem("p1")
    \/ Validate("p1")

SpecSeq == Init /\ [][NextSeq]_vars

\* the same, with one stored hashChain corrupted along the way
NextTamper ==
    \/ Tick
    \/ Begin("p1")
    \/ ReadLatest("p1")
    \/ PutItem("p1")
    \/ Validate("p1")
    \/ Tamper

SpecTamper == Init /\ [][NextTamper]_vars

\* every operation on the ledger, one invocation at a time
NextOps ==
    \/ TickOps
    \/ BeginOps("p1")
    \/ ReadLatest("p1")
    \/ PutItem("p1")
    \/ Validate("p1")
    \/ GetSequence("p1")
    \/ GetHistory("p1")
    \/ GenerateTimesheet("p1")
    \/ AttBegin("p1")
    \/ AttLeaveQuery("p1")
    \/ AttLogQuery("p1")
    \/ AttOrgGet("p1")
    \/ AttPut("p1")
    \/ LeaveBeginEmergency("p1")
    \/ LeavePut("p1")
    \/ StatusBeginApprove("p1")
    \/ StatusUpdate("p1")

SpecOps == Init /\ [][NextOps]_vars

\* a day ledger and a leave table are in place, all events are in the past
InitAtt ==
    /\ now = 2 * DayMs
    /\ ticks = 0
    /\ ledger \in DayLedgers
    /\ proc = [p \in Procs |-> Idle]
    /\ tampered = NoLog
    /\ attendance = {}
    /\ leaves \in LeaveTables

\* createAttendanceRecord invocations processed one at a time
NextAtt ==
    \/ AttBegin("p1")
    \/ AttLeaveQuery("p1")
    \/ AttLogQuery("p1")
    \/ AttOrgGet("p1")
    \/ AttPut("p1")
    \/ LeaveBegin("p1")
    \/ LeavePut("p1")
    \/ StatusBegin("p1")
    \/ StatusUpdate("p1")

SpecAtt == InitAtt /\ [][NextAtt]_vars

\* the morning of day 0 is in the log table, it is 16:00 on day 0, and a
\* leave request of the employee may be waiting for its approval
ConcDayTimes == {ClockTime(8, 0), ClockTime(10, 0)}

InitAttConc ==
    /\ now = ClockTime(16, 0)
    /\ ticks = 0
    /\ ledger \in LedgersOver(ConcDayTimes, MaxConcEvents - 1)
    /\ proc = [p \in Procs |-> Idle]
    /\ tampered = NoLog
    /\ attendance = {}
    /\ leaves \in {{}, {StoredLeave("E1", 0, 1, "Pending")}}

\* concurrent invocations of createAttendanceRecord, of createTimestamp and
\* of the two handlers of the leave requests
NextAttConc ==
    \/ \E p \in Procs : BeginConcurrent(p)
    \/ \E p \in Procs : ReadLatest(p)
    \/ \E p \in Procs : PutItem(p)
    \/ \E p \in Procs : AttBeginConcurrent(p)
    \/ \E p \in Procs : AttLeaveQuery(p)
    \/ \E p \in Procs : AttLogQuery(p)
    \/ \E p \in Procs : AttOrgGet(p)
    \/ \E p \in Procs : AttPut(p)
    \/ \E p \in Procs : LeaveBegin(p)
    \/ \E p \in Procs : LeavePut(p)
    \/ \E p \in Procs : StatusBegin(p)
    \/ \E p \in Procs : StatusUpdate(p)

SpecAttConc == InitAttConc /\ [][NextAttConc]_vars

\* a day ledger with up to two breaks is in place, no leave requests
InitAttBreaks ==
    /\ now = 2 * DayMs
    /\ ticks = 0
    /\ ledger \in BreakDayLedgers
    /\ proc = [p \in Procs |-> Idle]
    /\ tampered = NoLog
    /\ attendance = {}
    /\ leaves = {}

SpecAttBreaks == InitAttBreaks /\ [][NextAtt]_vars

\* a ledger of the timesheets is in place, all events are in the past
InitSheet ==
    /\ now = (MaxWeekDays + 2) * DayMs
    /\ ticks = 0
    /\ ledger \in SheetLedgers
    /\ proc = [p \in Procs |-> Idle]
    /\ tampered = NoLog
    /\ attendance = {}
    /\ leaves = {}

\* generateTimesheet invocations processed one at a time
NextSheet == GenerateSheet("p1")

SpecSheet == InitSheet /\ [][NextSheet]_vars

(***************************************************************************)
(* Properties.                                                             *)
(***************************************************************************)
\* the transition table of the ledger's state machine: (last, next) pairs
TransitionTable ==
    {<<"CLOCK_OUT", "CLOCK_IN">>,
     <<"CLOCK_IN", "BREAK_START">>, <<"CLOCK_IN", "WBS_CHANGE">>,
     <<"CLOCK_IN", "CLOCK_OUT">>,
     <<"BREAK_START", "BREAK_END">>, <<"BREAK_START", "WBS_CHANGE">>,
     <<"BREAK_END", "BREAK_START">>, <<"BREAK_END", "WBS_CHANGE">>,
     <<"BREAK_END", "CLOCK_OUT">>,
     <<"WBS_CHANGE", "BREAK_START">>, <<"WBS_CHANGE", "WBS_CHANGE">>,
     <<"WBS_CHANGE", "CLOCK_OUT">>}

LatestType == getLatestTimestamp(ledger).timestampType

\* C1: with a non-empty ledger, a request that reaches the state check with a
\* (latest stored type, requested type) pair outside the transition table
\* ends with InvalidTransition, and an event is stored only for a pair of
\* the table.
C1_TransitionTable ==
    [][\A p \in Procs :
          /\ (proc[p].pc = "stamped" /\ proc'[p] # proc[p] /\ ledger # {}
              /\ <<LatestType, proc[p].timestampType>> \notin TransitionTable)
                => (proc'[p] = Done("InvalidTransition") /\ ledger' = ledger)
          /\ (proc[p].pc = "read" /\ ledger' # ledger /\ ledger # {})
                => <<LatestType, proc[p].item.timestampType>> \in TransitionTable]_vars

\* a request was rejected with InvalidTransition while a break was open
C1_Witness ==
    /\ proc["p1"] = Done("InvalidTransition")
    /\ ledger # {}
    /\ LatestType = "BREAK_START"

\* C2: one request at a time, the Nth accepted event is stored with
\* sequenceNumber N, whatever was rejected in between: every change of the
\* ledger adds one event numbered one more than the events stored before.
C2_GaplessSequence ==
    [][ledger' # ledger =>
          \E e \in ledger' :
              /\ e \notin ledger
              /\ ledger' = ledger \cup {e}
              /\ e.sequenceNumber = Cardinality(ledger) + 1]_vars

\* the fourth event was accepted after a day change
C2_Witness ==
    /\ proc["p1"] = Done("Created")
    /\ Cardinality(ledger) = 4
    /\ getLatestTimestamp(ledger).sequenceNumber = 4

\* the stored events in timestamp order
Logs == fetchAllTimestampLogs(ledger)

\* C3: the first event by timestamp carries GENESIS, every later one the
\* digest of the event just before it in timestamp order and that event's
\* timestamp as previousTimestamp.
C3_HashChainLinked ==
    \A i \in 1..Len(Logs) :
        IF i = 1 THEN Logs[i].hashChain = GENESIS
        ELSE /\ Logs[i].hashChain = generateHash(Logs[i - 1])
             /\ Logs[i].previousTimestamp = Logs[i - 1].timestamp

\* C4: under any interleaving, the stored events in timestamp order carry
\* the sequence numbers 1..N.
C4_SequenceOneToN ==
    \A i \in 1..Len(Logs) : Logs[i].sequenceNumber = i

\* C5: of the requests that read the same latest event (or the same empty
\* ledger), at most one is stored.
C5_OneWriterPerRead ==
    \A e, f \in ledger : e.previousTimestamp = f.previousTimestamp => e = f

\* C8: every stored event is later than the event it was chained to.
C8_LaterThanPredecessor ==
    \A e \in ledger :
        e.previousTimestamp # NullTs => e.timestamp > e.previousTimestamp

\* C9: the stored events in timestamp order start with CLOCK_IN and every
\* consecutive pair is a transition of the table.
C9_LegalTransitions ==
    \A i \in 1..Len(Logs) :
        IF i = 1 THEN Logs[i].timestampType = "CLOCK_IN"
        ELSE <<Logs[i - 1].timestampType, Logs[i].timestampType>> \in TransitionTable

\* C10: a put whose key (employee, timestamp) is already stored is rejected
\* by the condition, and the stored events stay as they are.
C10_NoOverwrite ==
    [][\A p \in Procs :
          (/\ proc[p].pc = "read"
           /\ proc'[p] # proc[p]
           /\ \E e \in ledger : e.timestamp = proc[p].item.timestamp)
            => (ledger' = ledger /\ proc'[p] = Done("ConditionalCheckFailed"))]_vars

\* a put collided with a stored event of the same millisecond
C10_Witness ==
    \E p \in Procs :
        /\ proc[p] = Done("ConditionalCheckFailed")
        /\ ledger # {}

AuditReport == proc["p1"].report

Audited == proc["p1"].pc = "done" /\ proc["p1"].result = "Report"

\* C6 as claimed: the audit of a ledger built by appends processed one at a
\* time is VALID with all five classes empty.
C6_AuditAlwaysValid ==
    Audited => /\ AuditReport.validationStatus = "VALID"
               /\ AuditReport.errorDetails = NoErrors

ChainMessages == {MsgSequence, MsgChronological, MsgHash, MsgFirstHash}

\* C6 as amended: the audit of a ledger built by appends processed one at a
\* time has no entry in the sequence, chronological and hash classes and no
\* sequence, chronology or hash message on any event.
C6_AuditChainClean ==
    Audited =>
        /\ AuditReport.errorDetails.sequence = <<>>
        /\ AuditReport.errorDetails.chronological = <<>>
        /\ AuditReport.errorDetails.hash = <<>>
        /\ \A i \in 1..Len(AuditReport.validationResults) :
              \A k \in 1..Len(AuditReport.validationResults[i].errors) :
                  AuditReport.validationResults[i].errors[k] \notin ChainMessages

\* a four-event ledger was audited and found VALID
C6_Witness ==
    /\ Audited
    /\ Len(AuditReport.validationResults) = 4
    /\ AuditReport.validationStatus = "VALID"

\* the ledger with the corrupted item as it was stored
Untampered ==
    {e \in ledger : e.timestamp # tampered.timestamp} \cup {tampered}

\* C7: with one hashChain of an otherwise valid ledger replaced, the audit
\* is INVALID, its hash class holds exactly the corrupted event, no other
\* class has an entry and no other event has an error.
C7_CorruptionFlagged ==
    (/\ Audited
     /\ tampered # NoLog
     /\ validateLedger(fetchAllTimestampLogs(Untampered)).validationStatus = "VALID")
    => /\ AuditReport.validationStatus = "INVALID"
       /\ Len(AuditReport.errorDetails.hash) = 1
       /\ AuditReport.errorDetails.hash[1].timestamp = tampered.timestamp
       /\ AuditReport.errorDetails.sequence = <<>>
       /\ AuditReport.errorDetails.chronological = <<>>
       /\ AuditReport.errorDetails.state = <<>>
       /\ AuditReport.errorDetails.breaks = <<>>
       /\ \A i \in 1..Len(AuditReport.validationResults) :
             AuditReport.validationResults[i].timestamp # tampered.timestamp
                => AuditReport.validationResults[i].errors = <<>>


\* the failures createTimestamp answers with
AppendFailures ==
    {"Forbidden", "MissingField", "ForbiddenNotOwner", "EmployeeNotFound",
     "EmployeeInactive", "UnassignedCategory", "NoActiveCategoryForDepartment",
     "InvalidTransition", "FirstEventMustBeClockIn", "ExcessiveGap",
     "MissingWbsChangeReason", "ConditionalCheckFailed"}

\* C11: a step in which createTimestamp answers with a failure leaves the
\* ledger as it is, and the ledger changes only in the step that answers
\* with success: a failed call has stored nothing, at any point of the call.
C11_FailureStoresNothing ==
    [][/\ \A p \in Procs :
            (/\ proc'[p] # proc[p]
             /\ proc'[p].pc = "done"
             /\ proc'[p].result \in AppendFailures) => ledger' = ledger
       /\ ledger' # ledger =>
            \E p \in Procs : proc[p].pc = "read" /\ proc'[p] = Done("Created")]_vars

\* a WBS_CHANGE without its reason was rejected on a ledger of two events
C11_Witness ==
    /\ proc["p1"] = Done("MissingWbsChangeReason")
    /\ Cardinality(ledger) = 2

\* C13: on an empty ledger a request of any type other than CLOCK_IN that
\* reaches the state check ends with FirstEventMustBeClockIn and stores
\* nothing, and the event stored first is a CLOCK_IN with sequenceNumber 1,
\* no previousTimestamp and hashChain GENESIS.
C13_FirstEvent ==
    [][\A p \in Procs :
          /\ (/\ proc[p].pc = "stamped"
              /\ proc'[p] # proc[p]
              /\ ledger = {}
              /\ proc[p].timestampType # "CLOCK_IN")
                => (proc'[p] = Done("FirstEventMustBeClockIn") /\ ledger' = ledger)
          /\ (proc[p].pc = "read" /\ proc'[p] # proc[p] /\ ledger = {})
                => /\ proc'[p] = Done("Created")
                   /\ \E e \in ledger' :
                         /\ ledger' = {e}
                         /\ e.timestampType = "CLOCK_IN"
                         /\ e.sequenceNumber = 1
                         /\ e.previousTimestamp = NullTs
                         /\ e.hashChain = GENESIS]_vars

\* a request was rejected because the ledger has no event yet
C13_Witness ==
    /\ proc["p1"] = Done("FirstEventMustBeClockIn")
    /\ ledger = {}

\* C14: a request with a legal transition whose timestamp is more than 24
\* hours after the latest stored event ends with ExcessiveGap and stores
\* nothing; at 24 hours exactly or less it is not rejected for the gap.
C14_GapRule ==
    [][\A p \in Procs :
          (/\ proc[p].pc = "stamped"
           /\ proc'[p] # proc[p]
           /\ ledger # {}
           /\ <<LatestType, proc[p].timestampType>> \in TransitionTable)
            => IF proc[p].timestamp - getLatestTimestamp(ledger).timestamp
                    > 24 * 60 * 60 * 1000
               THEN proc'[p] = Done("ExcessiveGap") /\ ledger' = ledger
               ELSE /\ proc'[p].result # "ExcessiveGap"
                    /\ (proc'[p].pc = "read"
                        \/ proc'[p] = Done("MissingWbsChangeReason"))]_vars

\* an event was stored exactly 24 hours after its predecessor, and a later
\* request was rejected for the gap
C14_Witness ==
    /\ proc["p1"] = Done("ExcessiveGap")
    /\ \E e \in ledger :
          e.previousTimestamp # NullTs /\ e.timestamp - e.previousTimestamp = DayMs

\* the state of section 4.1 after the first n logs
RECURSIVE StateAfter(_, _)
StateAfter(logs, n) ==
    IF n = 0 THEN "CLOCKED_OUT"
    ELSE CASE logs[n].timestampType = "CLOCK_IN" -> "CLOCKED_IN"
           [] logs[n].timestampType = "CLOCK_OUT" -> "CLOCKED_OUT"
           [] logs[n].timestampType = "BREAK_START" -> "ON_BREAK"
           [] logs[n].timestampType = "BREAK_END" -> "CLOCKED_IN"
           [] OTHER -> StateAfter(logs, n - 1)

\* C15: an audit answers VALID only with all five classes empty, and the
\* audit of a ledger that ends clocked in or on break is INVALID with a
\* final-state entry in the state class.
C15_ValidOnlyIfClean ==
    Audited =>
        /\ AuditReport.validationStatus = "VALID" =>
              /\ AuditReport.errorDetails.sequence = <<>>
              /\ AuditReport.errorDetails.chronological = <<>>
              /\ AuditReport.errorDetails.hash = <<>>
              /\ AuditReport.errorDetails.state = <<>>
              /\ AuditReport.errorDetails.breaks = <<>>
        /\ StateAfter(Logs, Len(Logs)) # "CLOCKED_OUT" =>
              /\ AuditReport.validationStatus = "INVALID"
              /\ \E k \in 1..Len(AuditReport.errorDetails.state) :
                    AuditReport.errorDetails.state[k].timestamp = FinalTs

\* a ledger that ends on break was audited
C15_Witness ==
    /\ Audited
    /\ StateAfter(Logs, Len(Logs)) = "ON_BREAK"
    /\ AuditReport.validationStatus = "INVALID"


\* the records of an employee and date
RecordsOf(employeeId, attendanceDate) ==
    {r \in attendance :
        r.employeeId = employeeId /\ r.attendanceDate = attendanceDate}

\* C16: at most one attendance record per employee and date, under any
\* interleaving of createAttendanceRecord invocations.
C16_OneRecordPerDate ==
    \A r1, r2 \in attendance :
        (r1.employeeId = r2.employeeId /\ r1.attendanceDate = r2.attendanceDate)
            => r1 = r2

\* C17: one request at a time, a createAttendanceRecord call for an employee
\* and date that have a record ends with Conflict and writes nothing, and
\* no step changes or removes a stored record.
C17_SecondCallConflicts ==
    [][/\ attendance \subseteq attendance'
       /\ \A p \in Procs :
            (/\ proc[p].pc \in {"idle", "done"}
             /\ proc'[p] # proc[p]
             /\ proc'[p].attendanceDate # NoDate
             /\ RecordsOf(proc'[p].employeeId, proc'[p].attendanceDate) # {})
              => /\ proc'[p].pc = "done"
                 /\ proc'[p].result = "Conflict"
                 /\ attendance' = attendance]_vars

\* the second call for day 0 was answered with Conflict, one record stored
C17_Witness ==
    /\ proc["p1"].pc = "done"
    /\ proc["p1"].result = "Conflict"
    /\ proc["p1"].attendanceDate = 0
    /\ Cardinality(RecordsOf("E1", 0)) = 1

\* the stored events of the record's day
EventsOf(r) == DayItems(ledger, r.employeeId, r.attendanceDate)

TypedEvents(r, timestampType) ==
    {e \in EventsOf(r) : e.timestampType = timestampType}

\* the earliest event of a non-empty set
Earliest(S) == CHOOSE e \in S : \A f \in S : e.timestamp <= f.timestamp

\* span: the day's first CLOCK_OUT minus the day's first CLOCK_IN
SpanOf(r) ==
    Earliest(TypedEvents(r, "CLOCK_OUT")).timestamp
        - Earliest(TypedEvents(r, "CLOCK_IN")).timestamp

\* the BREAK_START-to-BREAK_END intervals of the day: a BREAK_START and the
\* BREAK_END after it with no break event in between
BreakIntervals(r) ==
    {<<b, e>> \in TypedEvents(r, "BREAK_START") \X TypedEvents(r, "BREAK_END") :
        /\ b.timestamp < e.timestamp
        /\ ~\E x \in TypedEvents(r, "BREAK_START") \cup TypedEvents(r, "BREAK_END") :
              b.timestamp < x.timestamp /\ x.timestamp < e.timestamp}

RECURSIVE SumIntervals(_)
SumIntervals(S) ==
    IF S = {} THEN 0
    ELSE LET iv == CHOOSE x \in S : TRUE
         IN  (iv[2].timestamp - iv[1].timestamp) + SumIntervals(S \ {iv})

\* span minus breaks, in milliseconds
NetMs(r) == SpanOf(r) - SumIntervals(BreakIntervals(r))

EightHoursMs == 8 * 60 * 60 * 1000

RegularMs(r) == IF NetMs(r) < EightHoursMs THEN NetMs(r) ELSE EightHoursMs

OvertimeMs(r) == IF NetMs(r) > EightHoursMs THEN NetMs(r) - EightHoursMs ELSE 0

\* a value in hundredths of an hour is the number of milliseconds exactly
Exactly(hundredths, ms) == hundredths * 36000 = ms

\* a value in hundredths of an hour is the number of milliseconds rounded
\* to the nearest hundredth
Rounded(hundredths, ms) ==
    /\ hundredths * 36000 - ms <= 18000
    /\ ms - hundredths * 36000 <= 18000

SingleShift(r) ==
    /\ Cardinality(TypedEvents(r, "CLOCK_IN")) = 1
    /\ Cardinality(TypedEvents(r, "CLOCK_OUT")) = 1

\* C18 as claimed: the hours of a record of a day with one CLOCK_IN and one
\* CLOCK_OUT are span - breaks, min(total, 8 h) and max(0, total - 8 h).
C18_ExactHours ==
    \A r \in attendance :
        SingleShift(r) =>
            /\ Exactly(r.totalHours, NetMs(r))
            /\ Exactly(r.regularHours, RegularMs(r))
            /\ Exactly(r.overtimeHours, OvertimeMs(r))

\* the day of the example: in at 08:00, break 10:00-10:15, out at 16:00
ExampleDay(r) ==
    {<<e.timestampType, e.timestamp>> : e \in EventsOf(r)}
        = {<<"CLOCK_IN", ClockTime(8, 0)>>, <<"BREAK_START", ClockTime(10, 0)>>,
           <<"BREAK_END", ClockTime(10, 15)>>, <<"CLOCK_OUT", ClockTime(16, 0)>>}

\* C18 as amended: the hours of every record are span - breaks, min(total,
\* 8 h) and max(0, total - 8 h), each rounded to the nearest hundredth of
\* an hour, the span taken from the day's first CLOCK_IN to its first
\* CLOCK_OUT; the example day gives 7.75, 7.75 and 0.
C18_RoundedHours ==
    \A r \in attendance :
        /\ Rounded(r.totalHours, NetMs(r))
        /\ Rounded(r.regularHours, RegularMs(r))
        /\ Rounded(r.overtimeHours, OvertimeMs(r))
        /\ ExampleDay(r) =>
              r.totalHours = 775 /\ r.regularHours = 775 /\ r.overtimeHours = 0

\* the record of the example day was created
C18_Witness ==
    \E r \in attendance :
        /\ ExampleDay(r)
        /\ r.totalHours = 775

\* C19: every record is of a day with exactly one CLOCK_IN and exactly one
\* CLOCK_OUT.
C19_ExactlyOneBoundary ==
    \A r \in attendance : SingleShift(r)

\* the slot holds the answer to a request for the date that got as far as
\* the logs of the day
AnsweredOnLogs(d) ==
    /\ proc["p1"].pc = "done"
    /\ proc["p1"].attendanceDate = d
    /\ proc["p1"].result \notin {"Conflict", "LeaveConflict"}

\* the only stored event of the date is a CLOCK_IN
OnlyClockIn(d) ==
    \E e \in ledger :
        /\ DayItems(ledger, "E1", d) = {e}
        /\ e.timestampType = "CLOCK_IN"

\* C20 as claimed: over a day whose only event is a CLOCK_IN the call fails
\* with MissingClockBoundary.
C20_MissingClockBoundary ==
    \A d \in AttDates :
        (AnsweredOnLogs(d) /\ OnlyClockIn(d))
            => proc["p1"].result = "MissingClockBoundary"

\* C20 as amended: over a day whose only event is a CLOCK_IN the call fails
\* with IncompleteDay and no record of the date is written.
C20_IncompleteDay ==
    \A d \in AttDates :
        (AnsweredOnLogs(d) /\ OnlyClockIn(d))
            => /\ proc["p1"].result = "IncompleteDay"
               /\ RecordsOf("E1", d) = {}

\* a request over a day with a single CLOCK_IN was answered
C20_Witness ==
    /\ AnsweredOnLogs(0)
    /\ OnlyClockIn(0)
    /\ proc["p1"].result = "IncompleteDay"


\* the responses of the four handlers that only read
ReadResults == {"Report", "Sequence", "History", "Timesheet", "NoLogsInRange"}

\* the places at which a createAttendanceRecord invocation waits
AttSteps == {"attChecked", "attLeaveChecked", "attLogsRead", "attProcessed"}

\* C12: no step modifies or deletes a stored event; the ledger changes only
\* by the put of createTimestamp, which adds its item; the steps of the
\* four reading handlers and of createAttendanceRecord leave the ledger as
\* it is.
C12_AppendOnly ==
    [][/\ ledger \subseteq ledger'
       /\ ledger' # ledger =>
            \E p \in Procs :
                proc[p].pc = "read" /\ ledger' = ledger \cup {proc[p].item}
       /\ \A p \in Procs :
            (/\ proc'[p] # proc[p]
             /\ \/ proc'[p].result \in ReadResults
                \/ proc'[p].pc \in AttSteps
                \/ proc[p].pc \in AttSteps)
              => ledger' = ledger]_vars

\* a timesheet was answered from a ledger of three events, after an
\* attendance record was written
C12_Witness ==
    /\ proc["p1"].pc = "done"
    /\ proc["p1"].result = "Timesheet"
    /\ Cardinality(ledger) = 3
    /\ attendance # {}


\* the day of the employee, as a key of the same shape as a record
DayOf(d) == [employeeId |-> "E1", attendanceDate |-> d]

\* the day passes the checks made before the breaks are walked: two events
\* at least, a CLOCK_IN and a CLOCK_OUT, at most 12 hours between the first
\* of each
ReachesBreaks(d) ==
    /\ Cardinality(EventsOf(DayOf(d))) >= 2
    /\ TypedEvents(DayOf(d), "CLOCK_IN") # {}
    /\ TypedEvents(DayOf(d), "CLOCK_OUT") # {}
    /\ SpanOf(DayOf(d)) <= 12 * 60 * 60 * 1000

\* some break of the day, BREAK_START to the BREAK_END that ends it, is
\* longer than 30 minutes
LongBreak(d) ==
    \E iv \in BreakIntervals(DayOf(d)) :
        iv[2].timestamp - iv[1].timestamp > 30 * 60 * 1000

\* C21: a request that gets as far as the breaks of the day fails with
\* ExcessiveBreakDuration, no record written, exactly when some single
\* break of the day is longer than 30 minutes; with breaks of at most 30
\* minutes each it does not fail on the breaks, whatever their total.
C21_SingleBreakLimit ==
    \A d \in AttDates :
        (AnsweredOnLogs(d) /\ ReachesBreaks(d)) =>
            /\ LongBreak(d) =>
                  /\ proc["p1"].result = "ExcessiveBreakDuration"
                  /\ RecordsOf("E1", d) = {}
            /\ ~LongBreak(d) => proc["p1"].result = "Created"

\* a day with breaks of 30 and 29 minutes got its record, 59 minutes of
\* break taken off
C21_Witness ==
    /\ AnsweredOnLogs(0)
    /\ proc["p1"].result = "Created"
    /\ Cardinality(BreakIntervals(DayOf(0))) = 2
    /\ SumIntervals(BreakIntervals(DayOf(0))) = 59 * 60 * 1000


\* the employee has an approved leave request whose range covers the date
ApprovedLeaveCovers(employeeId, d) ==
    \E leave \in leaves :
        /\ leave.employeeId = employeeId
        /\ leave.approvalStatus = "Approved"
        /\ leave.startDate <= d
        /\ d <= leave.endDate

\* C22: a request whose leave query finds the date inside an approved leave
\* of the employee, first and last day included, fails with LeaveConflict
\* and writes nothing; the query fails no request otherwise, so a pending
\* or rejected leave request never blocks; and with requests taken one at
\* a time no record is written for a date inside an approved leave.
C22_LeaveConflict ==
    [][/\ \A p \in Procs :
            (proc[p].pc = "attChecked" /\ proc'[p] # proc[p]) =>
                /\ proc'[p].result = "LeaveConflict"
                     <=> ApprovedLeaveCovers(proc[p].employeeId,
                                             proc[p].attendanceDate)
                /\ proc'[p].result = "LeaveConflict" =>
                     proc'[p].pc = "done" /\ attendance' = attendance
       /\ \A r \in attendance' \ attendance :
            ~ApprovedLeaveCovers(r.employeeId, r.attendanceDate)]_vars

\* a request for the last day of an approved leave was refused
C22_Witness ==
    /\ proc["p1"].pc = "done"
    /\ proc["p1"].attendanceDate = 1
    /\ proc["p1"].result = "LeaveConflict"
    /\ \E leave \in leaves : leave.startDate = 0 /\ leave.endDate = 1

\* the four fields of the response are those of the event
SequenceOf(report, e) ==
    /\ report.latestSequenceNumber = e.sequenceNumber
    /\ report.latestTimestamp = e.timestamp
    /\ report.latestTimestampType = e.timestampType
    /\ report.hashChain = e.hashChain

\* C26: requests processed one at a time.  Every accepted event gets the
\* number of events accepted so far as its sequenceNumber and is later than
\* every event accepted before it; every response of getTimestampSequence
\* carries the sequenceNumber, timestamp, type and hashChain of the event
\* accepted last, its sequenceNumber being the number of accepted events,
\* and 0 with null timestamp, type and hashChain over an empty ledger.
C26_LatestSequence ==
    [][/\ ledger' # ledger =>
            \E e \in ledger' \ ledger :
                /\ ledger' = ledger \cup {e}
                /\ e.sequenceNumber = Cardinality(ledger')
                /\ \A f \in ledger : f.timestamp < e.timestamp
       /\ (proc'["p1"] # proc["p1"] /\ proc'["p1"].result = "Sequence") =>
            LET report == proc'["p1"].report
            IN  /\ report.latestSequenceNumber = Cardinality(ledger)
                /\ ledger = {} =>
                      /\ report.latestTimestamp = NullTs
                      /\ report.latestTimestampType = "NONE"
                      /\ report.hashChain = <<>>
                /\ ledger # {} =>
                      \E e \in ledger :
                          /\ \A f \in ledger \ {e} : f.timestamp < e.timestamp
                          /\ SequenceOf(report, e)]_vars

\* the sequence was read after three events had been accepted
C26_Witness ==
    /\ proc["p1"].pc = "done"
    /\ proc["p1"].result = "Sequence"
    /\ proc["p1"].report.latestSequenceNumber = 3
    /\ Cardinality(ledger) = 3

\* the caller of the request is not an employee acting on the own account
NotOwnRequest(event) ==
    event.role # "employee" \/ event.caller # event.body.employeeId

\* C27: a createTimestamp request by a caller of another role, or for
\* another employee than the caller, is answered in its first step, the
\* ledger neither read nor written, with 403 when its body is complete (and
\* when the role is not employee, whatever the body); an invocation gets
\* past its first step only for a caller of role employee with the
\* caller's own employeeId; the ledger changes only by the put of such an
\* invocation, which adds an event of that employee; validateLedger
\* answers with a report only to hr_admin and manager_admin.
C27_OwnLedgerOnly ==
    [][/\ \A p \in Procs : \A event \in Requests :
            (NotOwnRequest(event) /\ BeginEvent(p, event, MaxEvents)) =>
                /\ proc'[p].pc = "done"
                /\ ledger' = ledger
                /\ (validateBody(event.body) \/ event.role # "employee") =>
                      proc'[p].result \in {"Forbidden", "ForbiddenNotOwner"}
       /\ \A p \in Procs :
            (proc'[p].pc = "stamped" /\ proc[p].pc # "stamped") =>
                \E event \in Requests :
                    /\ event.role = "employee"
                    /\ event.caller = proc'[p].employeeId
                    /\ BeginEvent(p, event, MaxEvents)
       /\ \A p \in Procs :
            (proc'[p].pc = "read" /\ proc[p].pc # "read") =>
                /\ proc[p].pc = "stamped"
                /\ proc'[p].item.employeeId = proc[p].employeeId
       /\ ledger' # ledger =>
            \E p \in Procs :
                /\ proc[p].pc = "read"
                /\ ledger' = ledger \cup {proc[p].item}
       /\ \A p \in Procs : \A role \in Roles :
            (proc'[p].result = "Report" /\ proc'[p] # proc[p] /\ ValidateAs(p, role)) =>
                role \in {"hr_admin", "manager_admin"}]_vars

\* a request of another employee for E1's ledger was refused while the
\* ledger holds events of E1 only
C27_Witness ==
    /\ proc["p1"].pc = "done"
    /\ proc["p1"].result = "ForbiddenNotOwner"
    /\ Cardinality(ledger) = 2
    /\ \A e \in ledger : e.employeeId = "E1"

\* the audit lists the event at position i in its state class
StateFlagged(i) ==
    \E k \in 1..Len(AuditReport.errorDetails.state) :
        AuditReport.errorDetails.state[k].timestamp = Logs[i].timestamp

\* the event at position i follows its predecessor by the transition
\* table; the first event is a CLOCK_IN
LegalAt(i) ==
    IF i = 1 THEN Logs[1].timestampType = "CLOCK_IN"
    ELSE <<Logs[i - 1].timestampType, Logs[i].timestampType>> \in TransitionTable

\* C28: the audit records a state error on the event at position i if and
\* only if the transition from the type of the event before it is not in
\* the transition table (for the first event: its type is not CLOCK_IN).
C28_StateCheckIsTable ==
    Audited => \A i \in 1..Len(Logs) : StateFlagged(i) <=> ~LegalAt(i)

\* C29: every stored event that did not supply a work-category code (in
\* the requests of the model a code is supplied with WBS_CHANGE only) has
\* the wbsCode of the event before it, and a WBS_CHANGE has the code it
\* supplied or the code of the event before it.
C29_CodeCarriedForward ==
    \A i \in 2..Len(Logs) :
        IF Logs[i].timestampType = "WBS_CHANGE"
        THEN Logs[i].wbsCode \in {Logs[i - 1].wbsCode, W2}
        ELSE Logs[i].wbsCode = Logs[i - 1].wbsCode

\* the breaks of the ledger: a BREAK_START and the BREAK_END that ends it
LedgerBreaks ==
    {<<Logs[i].timestamp, Logs[j].timestamp>> :
        <<i, j>> \in {<<i, j>> \in (1..Len(Logs)) \X (1..Len(Logs)) :
            /\ i < j
            /\ Logs[i].timestampType = "BREAK_START"
            /\ Logs[j].timestampType = "BREAK_END"
            /\ \A k \in (i + 1)..(j - 1) :
                  Logs[k].timestampType \notin {"BREAK_START", "BREAK_END"}}}

\* the part of the interval that lies on the date, in milliseconds
OnDate(iv, d) ==
    LET from == IF iv[1] > d * DayMs THEN iv[1] ELSE d * DayMs
        to == IF iv[2] < (d + 1) * DayMs THEN iv[2] ELSE (d + 1) * DayMs
    IN  IF to > from THEN to - from ELSE 0

\* the time spent on break on the date
RECURSIVE BreakTimeOn(_, _)
BreakTimeOn(S, d) ==
    IF S = {} THEN 0
    ELSE LET iv == CHOOSE x \in S : TRUE
         IN  OnDate(iv, d) + BreakTimeOn(S \ {iv}, d)

\* the audit lists the date in its break class
BreakFlagged(d) ==
    \E k \in 1..Len(AuditReport.errorDetails.breaks) :
        AuditReport.errorDetails.breaks[k].date = d

\* C30: the audit records a break-duration error for a date if and only if
\* the employee spent more than 4 hours on break on that date, each break
\* counted on the dates it covers.
C30_BreakTimePerDate ==
    Audited =>
        \A d \in 0..(MaxTicks + 1) :
            BreakFlagged(d) <=> BreakTimeOn(LedgerBreaks, d) > 4 * 60 * 60 * 1000

\* the slot holds a timesheet
Sheeted == proc["p1"].pc = "done" /\ proc["p1"].result = "Timesheet"

Sheet == proc["p1"].report

SheetDates == DOMAIN Sheet.dailyBreakdown

\* min(dayTotal, 8) and max(0, dayTotal - 8) of the day, in thousandths
DailyRegularOf(d) ==
    IF Sheet.dailyBreakdown[d].totalHours < 8000
    THEN Sheet.dailyBreakdown[d].totalHours ELSE 8000

DailyOvertimeOf(d) ==
    IF Sheet.dailyBreakdown[d].totalHours > 8000
    THEN Sheet.dailyBreakdown[d].totalHours - 8000 ELSE 0

RECURSIVE SumRegular(_)
SumRegular(dates) ==
    IF dates = {} THEN 0
    ELSE LET d == CHOOSE x \in dates : TRUE
         IN  DailyRegularOf(d) + SumRegular(dates \ {d})

RECURSIVE SumOvertime(_)
SumOvertime(dates) ==
    IF dates = {} THEN 0
    ELSE LET d == CHOOSE x \in dates : TRUE
         IN  DailyOvertimeOf(d) + SumOvertime(dates \ {d})

\* max(0, sum(dailyRegular) - 40), in thousandths
WeeklyOvertimeOf(dates) ==
    IF SumRegular(dates) > 40000 THEN SumRegular(dates) - 40000 ELSE 0

\* a value in hundredths of an hour is the number of thousandths to two
\* decimals
Hundredths(value, thousandths) ==
    /\ value * 10 - thousandths <= 5
    /\ thousandths - value * 10 <= 5

\* C23: in every timesheet, with dailyRegular = min(dayTotal, 8) and
\* dailyOvertime = max(0, dayTotal - 8) of each day and weeklyOvertime =
\* max(0, sum(dailyRegular) - 40), the summary has regularHours =
\* sum(dailyRegular) - weeklyOvertime and overtimeHours = weeklyOvertime +
\* sum(dailyOvertime), to two decimals; five days of 9 hours each give
\* regularHours 40 and overtimeHours 5.
C23_WeeklySummary ==
    Sheeted =>
        /\ Hundredths(Sheet.weeklySummary.regularHours,
                      SumRegular(SheetDates) - WeeklyOvertimeOf(SheetDates))
        /\ Hundredths(Sheet.weeklySummary.overtimeHours,
                      WeeklyOvertimeOf(SheetDates) + SumOvertime(SheetDates))
        /\ (/\ Cardinality(SheetDates) = 5
            /\ \A d \in SheetDates : Sheet.dailyBreakdown[d].totalHours = 9000)
             => /\ Sheet.weeklySummary.regularHours = 4000
                /\ Sheet.weeklySummary.overtimeHours = 500

\* the timesheet of five days of 9 hours each: 40 regular, 5 overtime
C23_Witness ==
    /\ Sheeted
    /\ Cardinality(SheetDates) = 5
    /\ \A d \in SheetDates : Sheet.dailyBreakdown[d].totalHours = 9000
    /\ Sheet.weeklySummary.regularHours = 4000
    /\ Sheet.weeklySummary.overtimeHours = 500

\* the logs of the date range of the timesheet
SheetLogs == fetchAllLogsForRange(ledger, Sheet.dateRange[1], Sheet.dateRange[2])

\* the BREAK_START/BREAK_END pairs of the timesheet that end on the date
SheetBreaks(d) ==
    {<<SheetLogs[i].timestamp, SheetLogs[j].timestamp>> :
        <<i, j>> \in {<<i, j>> \in (1..Len(SheetLogs)) \X (1..Len(SheetLogs)) :
            /\ i < j
            /\ SheetLogs[i].timestampType = "BREAK_START"
            /\ SheetLogs[j].timestampType = "BREAK_END"
            /\ DateOnly(SheetLogs[j].timestamp) = d
            /\ \A k \in (i + 1)..(j - 1) :
                  SheetLogs[k].timestampType \notin {"BREAK_START", "BREAK_END"}}}

RECURSIVE SumPairs(_)
SumPairs(S) ==
    IF S = {} THEN 0
    ELSE LET iv == CHOOSE x \in S : TRUE
         IN  (iv[2] - iv[1]) + SumPairs(S \ {iv})

\* the durations of the day's segments, in thousandths of an hour
RECURSIVE SumSegments(_)
SumSegments(allocations) ==
    IF allocations = <<>> THEN 0
    ELSE (allocations[1].endTime - allocations[1].startTime) \div 3600
         + SumSegments(Tail(allocations))

\* C24: the totalHours of each day of a timesheet is the sum of the
\* durations of the day's segments minus the total duration of the day's
\* BREAK_START/BREAK_END pairs.
C24_TotalMinusBreaks ==
    Sheeted =>
        \A d \in SheetDates :
            Sheet.dailyBreakdown[d].totalHours
                = SumSegments(Sheet.dailyBreakdown[d].allocations)
                  - SumPairs(SheetBreaks(d)) \div 3600

\* the segments recorded in the timesheet
SheetSegments ==
    UNION {{Sheet.dailyBreakdown[d].allocations[k] :
                k \in 1..Len(Sheet.dailyBreakdown[d].allocations)} :
           d \in SheetDates}

\* the event at position i of the timesheet's logs opens a segment, and the
\* event at position j is the next one that closes segments
OpensAndCloses(i, j) ==
    /\ i < j
    /\ SheetLogs[i].timestampType \in {"CLOCK_IN", "WBS_CHANGE", "BREAK_END"}
    /\ SheetLogs[j].timestampType \in {"WBS_CHANGE", "CLOCK_OUT", "BREAK_START"}
    /\ \A k \in (i + 1)..(j - 1) :
          SheetLogs[k].timestampType \notin {"WBS_CHANGE", "CLOCK_OUT", "BREAK_START"}

\* the segment is the one from the event at i to the event at j: the code
\* of the opening event, the duration in hours to three decimals
SegmentOf(seg, i, j) ==
    /\ seg.startTime = SheetLogs[i].timestamp
    /\ seg.wbsCode = SheetLogs[i].wbsCode
    /\ seg.endTime = SheetLogs[j].timestamp
    /\ seg.totalHours * 3600 - (seg.endTime - seg.startTime) <= 1800
    /\ (seg.endTime - seg.startTime) - seg.totalHours * 3600 <= 1800

\* C25: in every timesheet, each CLOCK_IN, WBS_CHANGE or BREAK_END of the
\* range that is followed by a WBS_CHANGE, CLOCK_OUT or BREAK_START has a
\* recorded segment from it to the next such event, with the code of the
\* opening event and the time between the two as duration, and every
\* recorded segment is one of these.
C25_Segments ==
    Sheeted =>
        /\ \A i, j \in 1..Len(SheetLogs) :
              OpensAndCloses(i, j) =>
                  \E seg \in SheetSegments : SegmentOf(seg, i, j)
        /\ \A seg \in SheetSegments :
              \E i, j \in 1..Len(SheetLogs) :
                  OpensAndCloses(i, j) /\ SegmentOf(seg, i, j)
        /\ \A d \in SheetDates :
              Len(Sheet.dailyBreakdown[d].allocations)
                  = Cardinality({seg \in SheetSegments :
                                    DateOnly(seg.endTime) = d})

\* a timesheet of a day with three segments, the first under W1, the
\* second under W2, the third opened by a BREAK_END
C25_Witness ==
    /\ Sheeted
    /\ \E d \in SheetDates :
          /\ Len(Sheet.dailyBreakdown[d].allocations) = 3
          /\ Sheet.dailyBreakdown[d].allocations[1].wbsCode = W1
          /\ Sheet.dailyBreakdown[d].allocations[2].wbsCode = W2
          /\ \E i \in 1..Len(SheetLogs) :
                /\ SheetLogs[i].timestampType = "BREAK_END"
                /\ SheetLogs[i].timestamp
                      = Sheet.dailyBreakdown[d].allocations[3].startTime

\* the stored events whose calendar date lies in the date range of the
\* timesheet, both bounds included
EventsInRange ==
    {e \in ledger :
        /\ Sheet.dateRange[1] <= DateOnly(e.timestamp)
        /\ DateOnly(e.timestamp) <= Sheet.dateRange[2]}

\* C31: a timesheet is computed from the stored events whose calendar date
\* d satisfies startDate <= d <= endDate, the events of endDate included:
\* its days are the dates of these events and every segment boundary is
\* one of these events.
C31_RangeInclusive ==
    Sheeted =>
        /\ SheetDates = {DateOnly(e.timestamp) : e \in EventsInRange}
        /\ \A seg \in SheetSegments :
              \E e, f \in EventsInRange :
                  seg.startTime = e.timestamp /\ seg.endTime = f.timestamp

\* the state of the employee by replay of the stored events
LedgerState == StateAfter(Logs, Len(Logs))

\* C32: requests processed one at a time.  An event is stored only in the
\* state that its type requires (BREAK_START in CLOCKED_IN, BREAK_END in
\* ON_BREAK, CLOCK_OUT in CLOCKED_IN), and a BREAK_END request that reaches
\* the state check while the employee is ON_BREAK is not refused as an
\* invalid transition.
C32_ReplayStateRespected ==
    [][/\ \A e \in ledger' \ ledger :
            /\ e.timestampType = "BREAK_START" => LedgerState = "CLOCKED_IN"
            /\ e.timestampType = "BREAK_END" => LedgerState = "ON_BREAK"
            /\ e.timestampType = "CLOCK_OUT" => LedgerState = "CLOCKED_IN"
       /\ (/\ proc["p1"].pc = "stamped"
           /\ proc["p1"].timestampType = "BREAK_END"
           /\ LedgerState = "ON_BREAK")
            => proc'["p1"].result # "InvalidTransition"]_vars

\* the times at which a later request of the employee can be stamped
LaterStamps == {now} \cup {now + d : d \in TickSizes}

\* C33: the ledger never reaches a state from which every later append is
\* refused: in every reachable state some event type passes the state check
\* at the current or a later time, and when the latest event is a CLOCK_OUT a
\* CLOCK_IN passes it however long ago the CLOCK_OUT was.
C33_AppendAlwaysPossible ==
    LET latestLog == getLatestTimestamp(ledger)
    IN  /\ \E timestampType \in TimestampTypes, timestamp \in LaterStamps :
               StateCheck(timestampType, timestamp, latestLog) = "ok"
        /\ (latestLog # NoLog /\ latestLog.timestampType = "CLOCK_OUT")
               => StateCheck("CLOCK_IN", now, latestLog) = "ok"

(***************************************************************************)
(* Edits of stored events behind the API, and their audit.                 *)
(***************************************************************************)
\* the codes a stored wbsCode can be replaced by
StoredCodes == {NoWbs, W1, W2}

\* the item with one of timestampType, sequenceNumber and workCategoryCode
\* replaced by another value
EditsOf(e, n) ==
    {[e EXCEPT !.timestampType = t] : t \in TimestampTypes \ {e.timestampType}}
    \cup {[e EXCEPT !.sequenceNumber = k] : k \in (1..(n + 1)) \ {e.sequenceNumber}}
    \cup {[e EXCEPT !.wbsCode = w] : w \in StoredCodes \ {e.wbsCode}}

\* a stored item is edited behind the API (once): one of the three fields is
\* replaced, everything else stays as stored; tampered keeps the item as it
\* was.  The responses returned before the edit are dropped.
EditStored ==
    /\ tampered = NoLog
    /\ \A p \in Procs : proc[p].pc \in {"idle", "done"}
    /\ \E e \in ledger :
        \E f \in EditsOf(e, Cardinality(ledger)) :
            /\ ledger' = (ledger \ {e}) \cup {f}
            /\ tampered' = e
    /\ proc' = [p \in Procs |-> Idle]
    /\ UNCHANGED <<now, ticks, attendance, leaves>>

\* a ledger built by accepted requests is in place
InitEdit ==
    /\ now = 2 * DayMs
    /\ ticks = 0
    /\ ledger \in SheetLedgersUpTo(MaxEvents)
    /\ proc = [p \in Procs |-> Idle]
    /\ tampered = NoLog
    /\ attendance = {}
    /\ leaves = {}

\* audits by an HR administrator, before and after an edit
NextEdit ==
    \/ EditStored
    \/ ValidateAs("p1", "hr_admin")

SpecEdit == InitEdit /\ [][NextEdit]_vars

\* C34: tamper evidence.  When the ledger was VALID as stored and one stored
\* event (any position, the last included) had its timestampType,
\* sequenceNumber or wbsCode changed, the audit of the edited ledger is
\* INVALID.
C34_TamperEvident ==
    (/\ Audited
     /\ tampered # NoLog
     /\ validateLedger(fetchAllTimestampLogs(Untampered)).validationStatus = "VALID")
    => AuditReport.validationStatus = "INVALID"

\* the entry of the per-event list is filed under the class
FiledUnder(class, v) ==
    \E k \in 1..Len(class) : class[k] = v

\* C35: the summary of an audit agrees with its per-event list: an entry of
\* validationResults with an error is filed under at least one class of
\* errorDetails, and the audit is then INVALID.
C35_SummaryMatchesList ==
    Audited =>
        \A i \in 1..Len(AuditReport.validationResults) :
            LET v == AuditReport.validationResults[i]
            IN  v.errors # <<>> =>
                    /\ \/ FiledUnder(AuditReport.errorDetails.sequence, v)
                       \/ FiledUnder(AuditReport.errorDetails.chronological, v)
                       \/ FiledUnder(AuditReport.errorDetails.hash, v)
                       \/ FiledUnder(AuditReport.errorDetails.state, v)
                    /\ AuditReport.validationStatus = "INVALID"

(***************************************************************************)
(* Attendance of a day that begins inside a shift of the day before.       *)
(***************************************************************************)
\* clock times of a night shift from 20:00 of day 0 to 01:00 of day 1 and
\* of a day shift of day 1
NightTimes == {ClockTime(20, 0), DayMs + ClockTime(1, 0),
               DayMs + ClockTime(8, 0), DayMs + ClockTime(16, 0),
               DayMs + ClockTime(17, 0)}

NightLedgers == LedgersOver(NightTimes, MaxDayEvents)

\* a ledger of the two days is in place, no leave requests
InitAttNight ==
    /\ now = 2 * DayMs
    /\ ticks = 0
    /\ ledger \in NightLedgers
    /\ proc = [p \in Procs |-> Idle]
    /\ tampered = NoLog
    /\ attendance = {}
    /\ leaves = {}

SpecAttNight == InitAttNight /\ [][NextAtt]_vars

\* C36: the hours of every stored attendance record, in hundredths of an
\* hour: totalHours is not negative, regularHours lies between 0 and 8 h,
\* overtimeHours is not negative, and regular and overtime hours add up to
\* the total.
C36_HoursWellFormed ==
    \A r \in attendance :
        /\ r.totalHours >= 0
        /\ 0 <= r.regularHours /\ r.regularHours <= RegularHours * 100
        /\ r.overtimeHours >= 0
        /\ r.regularHours + r.overtimeHours = r.totalHours

\* every day total of the timesheet is a whole number of hundredths of an
\* hour, so that the two decimals of the summary drop nothing
WholeHundredths ==
    \A d \in SheetDates : Sheet.dailyBreakdown[d].totalHours % 10 = 0

\* C37: in every timesheet the regular and the overtime hours of the weekly
\* summary add up to its total hours (where the two decimals drop nothing),
\* the regular hours are at most 40, and on every day the regular and the
\* overtime hours add up to the day's total: no hour is counted twice.
C37_NoDoubleCount ==
    Sheeted =>
        /\ WholeHundredths =>
              Sheet.weeklySummary.regularHours + Sheet.weeklySummary.overtimeHours
                  = Sheet.weeklySummary.totalHours
        /\ Sheet.weeklySummary.regularHours <= WeeklyRegularHours * 100
        /\ \A d \in SheetDates :
              Sheet.dailyBreakdown[d].dailyRegularHours
                  + Sheet.dailyBreakdown[d].dailyOvertimeHours
                  = Sheet.dailyBreakdown[d].totalHours

\* the timesheet of a week of 50 hours, two days of 9 hours and four of 8:
\* 40 regular hours and 10 overtime hours, 2 of them daily and 8 weekly
C37_Witness ==
    /\ Sheeted
    /\ Cardinality(SheetDates) = 6
    /\ Sheet.weeklySummary.totalHours = 5000
    /\ Sheet.weeklySummary.regularHours = 4000
    /\ Sheet.weeklySummary.overtimeHours = 1000

\* the times the employee was on break: from a BREAK_START to the next
\* BREAK_END or CLOCK_OUT of the ledger (to the current time when there is
\* none)
OnBreakIntervals ==
    {<<Logs[i].timestamp,
       IF \E j \in (i + 1)..Len(Logs) :
              Logs[j].timestampType \in {"BREAK_END", "CLOCK_OUT"}
       THEN Logs[Min({j \in (i + 1)..Len(Logs) :
                        Logs[j].timestampType \in {"BREAK_END", "CLOCK_OUT"}})].timestamp
       ELSE now>> :
        i \in {k \in 1..Len(Logs) : Logs[k].timestampType = "BREAK_START"}}

\* C38: no segment of a timesheet covers time the employee was on break:
\* every segment ends by the BREAK_START of a break or starts at or after the
\* event that ends the break.
C38_NoSegmentOnBreak ==
    Sheeted =>
        \A seg \in SheetSegments :
            \A iv \in OnBreakIntervals :
                seg.endTime <= iv[1] \/ seg.startTime >= iv[2]

(***************************************************************************)
(* The two entry points of a WBS_CHANGE: changeWbsCode and createTimestamp *)
(* called directly, invocations running concurrently.                      *)
(***************************************************************************)
\* claims['custom:wbsChange'] of the caller's token ("none": no such claim)
WbsChangeClaims == {"true", "false", "none"}

\* authUtil: the claim is the string 'true'
hasWbsPermission(event) == event.wbsChange = "true"

\* the events offered to createTimestamp, with the caller's claim: a
\* CLOCK_IN, a BREAK_START and a WBS_CHANGE to W2 of E1
DirectEvents ==
    {[role |-> "employee", caller |-> "E1", wbsChange |-> c,
      body |-> [employeeId |-> "E1", timestampType |-> t,
                wbsCode |-> IF t = "WBS_CHANGE" THEN W2 ELSE NoWbs,
                wbsChangeReason |-> (t = "WBS_CHANGE"), hasDeviceId |-> TRUE]] :
        t \in {"CLOCK_IN", "BREAK_START", "WBS_CHANGE"}, c \in WbsChangeClaims}

\* the events offered to changeWbsCode: a change to W2 by E1 with each
\* claim, and one event for each way of failing the checks
BaseChangeEvent ==
    [role |-> "employee", caller |-> "E1", wbsChange |-> "true",
     body |-> [employeeId |-> "E1", newWbsCode |-> W2, reason |-> TRUE,
               hasDeviceId |-> TRUE]]

ChangeEvents ==
    {[BaseChangeEvent EXCEPT !.wbsChange = c] : c \in WbsChangeClaims}
    \cup {[BaseChangeEvent EXCEPT !.role = "hr_admin"],
          [BaseChangeEvent EXCEPT !.caller = "E2"],
          [BaseChangeEvent EXCEPT !.body.newWbsCode = NoWbs],
          [BaseChangeEvent EXCEPT !.body.newWbsCode = X9],
          [BaseChangeEvent EXCEPT !.body.reason = FALSE]}

\* changeWbsCode, lines 19-46: role, wbsChange permission, ownership,
\* required fields, the code of the employee's department
changeWbsCodePreCheck(event) ==
    LET body == event.body
    IN  IF ~isAuthorized(event.role, {"employee"}) THEN "Forbidden"
        ELSE IF ~hasWbsPermission(event) THEN "ForbiddenWbsChange"
        ELSE IF event.caller # body.employeeId THEN "ForbiddenNotOwner"
        ELSE IF body.newWbsCode = NoWbs \/ ~body.reason \/ ~body.hasDeviceId
             THEN "MissingField"
        ELSE validateWbsCodeForEmployee(body.newWbsCode, body.employeeId)

\* changeWbsCode, lines 51-63: the event handed to the createTimestamp
\* handler
timestampEvent(event) ==
    [role |-> event.role, caller |-> event.caller,
     wbsChange |-> event.wbsChange,
     body |-> [employeeId |-> event.body.employeeId,
               timestampType |-> "WBS_CHANGE",
               wbsCode |-> event.body.newWbsCode,
               wbsChangeReason |-> event.body.reason,
               hasDeviceId |-> event.body.hasDeviceId]]

\* createTimestamp called directly with the event: its steps up to the
\* timestamp
AppendTimestampEvent(p) ==
    \E event \in DirectEvents : BeginEvent(p, event, MaxConcEvents)

\* changeWbsCode called with the event: its checks, then the steps of the
\* createTimestamp handler it awaits (line 66) up to the timestamp
ChangeWbsCode(p) ==
    /\ proc[p].pc \in {"idle", "done"}
    /\ Cardinality(ledger) + Cardinality(InFlight) < MaxConcEvents
    /\ \E event \in ChangeEvents :
        LET pre == changeWbsCodePreCheck(event)
            body == timestampEvent(event).body
            timestampPre == PreCheck(event.role, event.caller, body)
        IN  proc' = [proc EXCEPT ![p] =
                IF pre # "ok" THEN Done(pre)
                ELSE IF timestampPre # "ok" THEN Done(timestampPre)
                ELSE [Idle EXCEPT !.pc = "stamped",
                                  !.employeeId = body.employeeId,
                                  !.timestampType = body.timestampType,
                                  !.wbsCode = ResolvedWbs(body),
                                  !.reason = body.wbsChangeReason,
                                  !.timestamp = now,
                                  !.wbsChange = event.wbsChange,
                                  !.entryPoint = "changeWbsCode"]]
    /\ UNCHANGED <<now, ticks, ledger, tampered, attendance, leaves>>

NextWbs ==
    \/ TickMs
    \/ \E p \in Procs :
        \/ AppendTimestampEvent(p)
        \/ ChangeWbsCode(p)
        \/ ReadLatest(p)
        \/ PutItem(p)

SpecWbs == Init /\ [][NextWbs]_vars

\* C39: the put of an invocation stores a WBS_CHANGE event only when the
\* caller of the invocation, by either entry point, has the wbsChange
\* permission.
C39_WbsChangeNeedsPermission ==
    [][\A p \in Procs :
          (/\ proc[p].pc = "read"
           /\ proc'[p] # proc[p]
           /\ \E e \in ledger' \ ledger : e.timestampType = "WBS_CHANGE")
              => proc[p].wbsChange = "true"]_vars


====
